---------------------------- MODULE Spec2Model ----------------------------
(***************************************************************************)
(* A state-machine model of DataPreprocessor (src/data_preprocessor.py):   *)
(* the original / processed snapshots, column detection, the filter, the   *)
(* outlier stage, the normaliser and the two timestamp operations.         *)
(*                                                                         *)
(* Numbers are exact rationals <<num, den>> (den > 0, lowest terms); NaN   *)
(* is <<0, 0>>.  A z-scored column holds values c / sqrt(u) for a rational *)
(* u kept per column in the table's "unit" (u = 1 for every other column). *)
(* Timestamps are <<day, second of day, microsecond>>; NaT is <<0,0,-1>>.  *)
(* A text cell is a triple too: <<d, s, us>> with us >= 0 is the string    *)
(* that spells that timestamp, <<k, 0, -2>> is any other string and        *)
(* <<0, 0, -1>> an empty cell.                                             *)
(***************************************************************************)
EXTENDS Integers, Sequences, FiniteSets, TLC

VARIABLES
    original_df,      \* reference to the original frame (0 = None)
    processed_df,     \* reference to the processed frame (0 = None)
    heap,             \* reference -> frame: the storage the frames live in
    columns,          \* self.columns
    numeric_columns,  \* self.numeric_columns
    date_column,      \* self.date_column ("" = None)
    stats,            \* self.stats
    scope,            \* which files and policies this session draws from
    last,             \* the last call: operation, arguments, result
    preset_dir,       \* PresetManager: file stem -> the preset in that file
    book,             \* history: name -> the settings last saved under it
    app,              \* the window: processing flag, buttons, worker hand-offs
    threads           \* the pipeline workers started so far

\* what lies outside the DataPreprocessor object
outside == <<scope, preset_dir, book, app, threads>>

vars == <<original_df, processed_df, heap, columns, numeric_columns,
          date_column, stats, last, outside>>

(***************************************************************************)
(* Bounds of the model                                                     *)
(***************************************************************************)
MaxFilters == 2
MaxTargets == 2

(***************************************************************************)
(* Sequences                                                               *)
(***************************************************************************)
Range(s) == {s[i] : i \in 1..Len(s)}

RECURSIVE SeqSum(_)
SeqSum(s) == IF s = <<>> THEN 0 ELSE Head(s) + SeqSum(Tail(s))

RECURSIVE SelectIdx(_, _, _)
\* the elements s[i] with keep[i], in order
SelectIdx(s, keep, i) ==
    IF i > Len(s) THEN <<>>
    ELSE (IF keep[i] THEN <<s[i]>> ELSE <<>>) \o SelectIdx(s, keep, i + 1)

Count(mask) == Cardinality({i \in 1..Len(mask) : mask[i]})

\* every sequence over S of length at most n
SeqsUpTo(S, n) == UNION {[1..k -> S] : k \in 0..n}

(***************************************************************************)
(* Cells                                                                   *)
(***************************************************************************)
NaN == <<0, 0>>
NaT == <<0, 0, -1>>
Num(n) == <<n, 1>>
TS(d, h, m, s) == <<d, h * 3600 + m * 60 + s, 0>>
Str(k) == <<k, 0, -2>>

IsNull(kind, c) == IF kind = "num" THEN c[2] = 0 ELSE c[3] = -1

Abs(n) == IF n < 0 THEN -n ELSE n

RECURSIVE GCD(_, _)
GCD(a, b) == IF b = 0 THEN a ELSE GCD(b, a % b)

LCM(a, b) == (a * b) \div GCD(a, b)

\* n/d in lowest terms with a positive denominator (d # 0)
Rat(n, d) ==
    LET g == GCD(Abs(n), Abs(d))
        s == IF d < 0 THEN -1 ELSE 1
    IN  <<(s * n) \div g, (s * d) \div g>>

RatLess(a, b) == a[1] * b[2] < b[1] * a[2]
RatLeq(a, b)  == a[1] * b[2] <= b[1] * a[2]


(***************************************************************************)
(* Frames: cols in source order, the dtype and unit of every column, rows  *)
(***************************************************************************)
Frame(cols, kind, rows) ==
    [cols |-> cols, kind |-> kind,
     unit |-> [c \in Range(cols) |-> <<1, 1>>], rows |-> rows]

NoFrame == Frame(<<>>, <<>>, <<>>)

Column(df, col) == [i \in 1..Len(df.rows) |-> df.rows[i][col]]

\* df[col] = data: an existing column is overwritten, a new one is appended
SetColumn(df, col, kind, unit, data) ==
    [cols |-> IF col \in Range(df.cols) THEN df.cols ELSE Append(df.cols, col),
     kind |-> [c \in Range(df.cols) \cup {col} |->
                  IF c = col THEN kind ELSE df.kind[c]],
     unit |-> [c \in Range(df.cols) \cup {col} |->
                  IF c = col THEN unit ELSE df.unit[c]],
     rows |-> [i \in 1..Len(df.rows) |->
                  [c \in Range(df.cols) \cup {col} |->
                      IF c = col THEN data[i] ELSE df.rows[i][c]]]]

\* df[mask]: the rows whose mask is True, in order
SelectRows(df, mask) == [df EXCEPT !.rows = SelectIdx(df.rows, mask, 1)]

\* pd.to_datetime(series): every string must spell a timestamp
CanParse(df, col) ==
    \/ df.kind[col] = "time"
    \/ /\ df.kind[col] = "text"
       /\ \A i \in 1..Len(df.rows) : df.rows[i][col][3] # -2

ToDatetime(df, col) == [df EXCEPT !.kind[col] = "time"]

(***************************************************************************)
(* Column names.  A name is an atom; NameChars spells it, so that          *)
(* col.lower() and the substring test of _detect_date_column are computed. *)
(***************************************************************************)
NameChars(name) ==
    CASE name = "Date"      -> <<"D", "a", "t", "e">>
      [] name = "TEMP"      -> <<"T", "E", "M", "P">>
      [] name = "FAN"       -> <<"F", "A", "N">>
      [] name = "ID"        -> <<"I", "D">>
      [] name = "Runtime"   -> <<"R", "u", "n", "t", "i", "m", "e">>
      [] name = "TIMESTAMP" -> <<"T", "I", "M", "E", "S", "T", "A", "M", "P">>
      [] OTHER              -> <<"N", "O", "P", "E">>

LowerChar(ch) ==
    CASE ch = "A" -> "a" [] ch = "D" -> "d" [] ch = "E" -> "e"
      [] ch = "F" -> "f" [] ch = "I" -> "i" [] ch = "M" -> "m"
      [] ch = "N" -> "n" [] ch = "O" -> "o" [] ch = "P" -> "p"
      [] ch = "R" -> "r" [] ch = "S" -> "s" [] ch = "T" -> "t"
      [] OTHER -> ch

Lower(s) == [i \in 1..Len(s) |-> LowerChar(s[i])]

\* keyword in s
Contains(s, keyword) ==
    \E i \in 0..(Len(s) - Len(keyword)) :
        SubSeq(s, i + 1, i + Len(keyword)) = keyword

date_keywords ==
    << <<"d", "a", "t", "e">>,
       <<"t", "i", "m", "e">>,
       <<"d", "a", "t", "e", "t", "i", "m", "e">>,
       <<"U+B0A0", "U+C9DC">>,
       <<"U+C2DC", "U+AC04">>,
       <<"t", "i", "m", "e", "s", "t", "a", "m", "p">> >>

IsDateName(col) ==
    \E k \in 1..Len(date_keywords) :
        Contains(Lower(NameChars(col)), date_keywords[k])

\* The column the loop of _detect_date_column stops at, 0 when it runs out.
FirstDateIndex(cols) ==
    IF \E i \in 1..Len(cols) : IsDateName(cols[i])
    THEN CHOOSE i \in 1..Len(cols) :
            /\ IsDateName(cols[i])
            /\ \A j \in 1..(i - 1) : ~IsDateName(cols[j])
    ELSE 0

\* self.date_column after _detect_date_column: assigned only on a match
DetectDateColumn(cols, previous) ==
    IF FirstDateIndex(cols) = 0 THEN previous ELSE cols[FirstDateIndex(cols)]

\* The frame after the try block of _detect_date_column: converted when the
\* matched column parses, left as it is otherwise.
ConvertDateColumn(df, cols) ==
    IF FirstDateIndex(cols) = 0 THEN df
    ELSE LET col == cols[FirstDateIndex(cols)]
         IN  IF CanParse(df, col) THEN ToDatetime(df, col) ELSE df

MaxNumericColumns == 30

RECURSIVE NumericScan(_, _, _, _, _)
NumericScan(df, cols, date, i, found) ==
    IF i > Len(cols) THEN found
    ELSE IF cols[i] # date /\ df.kind[cols[i]] = "num"
         THEN IF Len(found) + 1 >= MaxNumericColumns
              THEN Append(found, cols[i])
              ELSE NumericScan(df, cols, date, i + 1, Append(found, cols[i]))
         ELSE NumericScan(df, cols, date, i + 1, found)

\* the scan without the break: every numeric column that is not the date
DetectAllNumericColumns(df, cols, date) ==
    SelectIdx(cols,
              [i \in 1..Len(cols) |->
                  cols[i] # date /\ df.kind[cols[i]] = "num"], 1)

DetectNumericColumns(df, cols, date) == NumericScan(df, cols, date, 1, <<>>)

(***************************************************************************)
(* The files a session can open.  A file is what the reader returns for    *)
(* it: the columns in source order, the inferred dtype of each, the rows.  *)
(***************************************************************************)
File(suffix, cols, kinds, data) ==
    [suffix |-> suffix,
     frame  |-> Frame(cols,
                      [c \in Range(cols) |->
                          kinds[CHOOSE k \in 1..Len(cols) : cols[k] = c]],
                      [i \in 1..Len(data) |->
                          [c \in Range(cols) |->
                              data[i][CHOOSE k \in 1..Len(cols) : cols[k] = c]]])]

\* the session of the filter claims: a drifting clock, a gap in TEMP
ShiftCsv ==
    File(".csv", <<"Date", "TEMP", "FAN">>, <<"text", "num", "num">>,
         << <<TS(0, 0, 1, 0),    Num(0), Num(1)>>,
            <<TS(0, 0, 5, 59),   Num(9), Num(1)>>,
            <<TS(0, 23, 59, 30), Num(0), Num(2)>>,
            <<TS(1, 0, 2, 1),    NaN,    Num(3)>>,
            <<TS(1, 0, 4, 0),    Num(0), Num(3)>> >>)

\* two sensors with a common spike in row 5: once that row is dropped the
\* step of FAN in row 4 is outside the quartile fences of the rest
PlantCsv ==
    File(".csv", <<"TEMP", "FAN">>, <<"num", "num">>,
         << <<Num(10),  Num(0)>>,
            <<Num(12),  Num(0)>>,
            <<Num(11),  Num(0)>>,
            <<Num(13),  Num(1)>>,
            <<Num(100), Num(5)>>,
            <<Num(9),   Num(0)>> >>)

LogXlsx ==
    File(".xlsx", <<"ID", "TEMP">>, <<"num", "num">>,
         << <<Num(1), Num(0)>>,
            <<Num(2), NaN>>,
            <<Num(3), Num(9)>> >>)

\* n readings of a sensor at rest with one step and one spike: for n = 6
\* the spike 5 is exactly mean + 2 * std (mean 1, std 2)
Spike(n) ==
    File(".csv", <<"TEMP">>, <<"num">>,
         [i \in 1..n |-> <<IF i = n THEN Num(n - 1)
                           ELSE IF i = n - 1 /\ n = 6 THEN Num(1)
                           ELSE Num(0)>>])

\* a header and no rows: the reader infers no numeric dtype
EmptyCsv ==
    File(".csv", <<"Date", "TEMP">>, <<"text", "text">>, <<>>)

NotesCsv ==
    File(".csv", <<"TEMP", "Runtime", "TIMESTAMP">>, <<"num", "text", "text">>,
         << <<Num(11), Str(1), TS(0, 0, 0, 0)>>,
            <<NaN,     NaT,    TS(0, 0, 2, 0)>> >>)

\* a logger whose clock drifts: full and half minutes, a tie of the
\* one-minute grid passed by a microsecond, the last microsecond of a day
ClockCsv ==
    File(".csv", <<"Date", "TEMP">>, <<"text", "num">>,
         << <<TS(0, 0, 1, 0),    Num(3)>>,
            <<TS(0, 0, 5, 59),   Num(0)>>,
            <<TS(0, 23, 59, 30), Num(4)>>,
            <<<<1, 30, 1>>,      Num(1)>>,
            <<TS(1, 0, 1, 30),   Num(5)>>,
            <<<<1, 86399, 999999>>, Num(2)>> >>)

\* a logger that writes on the hour, and once on the half hour
HourlyCsv ==
    File(".csv", <<"Date", "TEMP">>, <<"text", "num">>,
         << <<TS(0, 0, 0, 0),  Num(1)>>,
            <<TS(0, 1, 0, 0),  Num(2)>>,
            <<TS(0, 2, 30, 0), Num(3)>>,
            <<TS(0, 3, 0, 0),  Num(4)>> >>)

SensorNames ==
    <<"S01", "S02", "S03", "S04", "S05", "S06", "S07", "S08", "S09", "S10",
      "S11", "S12", "S13", "S14", "S15", "S16", "S17", "S18", "S19", "S20",
      "S21", "S22", "S23", "S24", "S25", "S26", "S27", "S28", "S29", "S30",
      "S31">>

\* a wide log: a counter, the clock, a remark and 31 sensors, each at rest
\* but for its last reading.  With the counter the table has 32 numeric
\* columns: S30 and S31 are beyond the first 30.
WideCsv ==
    File(".csv", <<"ID", "Date", "NOTE">> \o SensorNames,
         <<"num", "text", "text">> \o [k \in 1..Len(SensorNames) |-> "num"],
         [i \in 1..5 |->
             <<Num(i), TS(0, 0, 2 * i, 0), Str(i)>>
                \o [k \in 1..Len(SensorNames) |->
                       IF i = 5 THEN Num(k + 1) ELSE Num(0)]])

ReportTxt == File(".txt", <<"TEMP">>, <<"num">>, << <<Num(1)>> >>)

Files(sc) ==
    CASE sc = "filter"  -> {ShiftCsv}
      [] sc = "outlier" -> {PlantCsv}
      [] sc = "sigma"   -> {Spike(6), Spike(9), Spike(11)}
      [] sc = "time"    -> {ClockCsv}
      [] sc = "wide"    -> {WideCsv, ShiftCsv}
      [] sc = "readers" -> {ClockCsv, NotesCsv}
      [] sc \in {"ui", "race"} -> {ClockCsv}
      [] sc = "hours"   -> {HourlyCsv}
      [] OTHER          -> {LogXlsx, EmptyCsv, NotesCsv, ReportTxt}

(***************************************************************************)
(* The object's state                                                      *)
(***************************************************************************)
None == 0
NoColumn == ""

Original  == heap[original_df]
Processed == heap[processed_df]

\* a frame object not referenced by self.original_df
NewRef == CHOOSE r \in DOMAIN heap : r # original_df

StatsPut(s, key, value) ==
    [k \in DOMAIN s \cup {key} |-> IF k = key THEN value ELSE s[k]]

Result(op, ok, args, msg, trace) ==
    [op |-> op, ok |-> ok, args |-> args, msg |-> msg, trace |-> trace]

\* the option widgets as _create_widgets leaves them, in the shape of the
\* settings dict (the start-time entry holds the time of the launch)
DefaultPolicy ==
    [filters |-> <<>>,
     outlier |-> [apply |-> TRUE, method |-> "2.5sigma", action |-> "drop"],
     normalize |-> [apply |-> FALSE, method |-> "zscore"],
     time |-> [normalize |-> FALSE, realign |-> FALSE,
               start_time |-> TS(2, 23, 58, 0), interval |-> "2"]]

\* no pipeline run has completed yet
NoRun ==
    [policy |-> DefaultPolicy, original |-> NoFrame, processed |-> NoFrame,
     before |-> NoFrame]

\* the window after __init__: idle, the run control enabled, no hand-off
\* queued, no widget written by a worker.  ui is the program launched;
\* queue is the set of hand-offs waiting for the main thread; ended
\* remembers the last run that completed undisturbed.
AppStart ==
    [ui |-> "none", is_processing |-> FALSE, process_btn |-> TRUE,
     cancel_btn |-> FALSE, processing_thread |-> "none",
     policy |-> DefaultPolicy, queue |-> {}, direct |-> FALSE,
     ended |-> NoRun]

\* DataPreprocessor() at the start of a session of scope sc
Start(sc) ==
    /\ preset_dir = <<>>
    /\ book = <<>>
    /\ app = AppStart
    /\ threads = <<>>
    /\ original_df = None
    /\ processed_df = None
    /\ heap = [r \in {1, 2} |-> NoFrame]
    /\ columns = <<>>
    /\ numeric_columns = <<>>
    /\ date_column = NoColumn
    /\ stats = <<>>
    /\ scope = sc
    /\ last = Result("init", TRUE, <<>>, <<>>, <<>>)

Init ==
    \E sc \in {"filter", "outlier", "sigma", "files", "time", "wide"} :
        Start(sc)

(***************************************************************************)
(* load_data                                                               *)
(***************************************************************************)
SupportedSuffix(suffix) == suffix \in {".xlsx", ".xls", ".csv"}

\* the variant of LoadCopy in which processed_df is original_df itself
LoadAlias(ref) == ref

\* self.processed_df = self.original_df.copy(): the copy is a new object
LoadCopy(ref) == CHOOSE r \in DOMAIN heap : r # ref

LoadData(f) ==
    IF ~SupportedSuffix(f.suffix)
    THEN /\ last' = Result("load", FALSE, f.suffix, <<>>, <<>>)
         /\ UNCHANGED <<original_df, processed_df, heap, columns,
                        numeric_columns, date_column, stats>>
    ELSE LET cols == f.frame.cols
             date == DetectDateColumn(cols, date_column)
             df   == ConvertDateColumn(f.frame, cols)
             nums == DetectNumericColumns(df, cols, date)
         IN  /\ original_df' = 1
             /\ processed_df' = LoadCopy(1)
             /\ heap' = [r \in {1, 2} |-> df]
             /\ columns' = cols
             /\ date_column' = date
             /\ numeric_columns' = nums
             /\ stats' = StatsPut(StatsPut(StatsPut(stats,
                            "original_rows", Len(df.rows)),
                            "columns", Len(cols)),
                            "numeric_columns", Len(nums))
             /\ last' = Result("load", TRUE, f.suffix,
                               <<Len(df.rows), Len(cols)>>, <<>>)

(***************************************************************************)
(* apply_filters                                                           *)
(***************************************************************************)
PosInf == <<1, 0>>
NegInf == <<-1, 0>>

Operators == {">=", "<=", ">", "<", "=", "!=", "range"}

\* {'column', 'operator', 'value'} or {'column', 'operator', 'min', 'max'}
Pred(column, operator, value) ==
    [column |-> column, operator |-> operator, value |-> value,
     min |-> NegInf, max |-> PosInf]

RangePred(column, min, max) ==
    [column |-> column, operator |-> "range", value |-> Num(0),
     min |-> min, max |-> max]

\* comparing the column with a number raises TypeError
Raises(df, f) ==
    /\ f.operator \in {">=", "<=", ">", "<", "range"}
    /\ \/ df.kind[f.column] = "time"
       \/ /\ df.kind[f.column] = "text"
          /\ \E i \in 1..Len(df.rows) : ~IsNull("text", df.rows[i][f.column])

\* one element of  col_data <op> value
Holds(kind, c, f) ==
    IF kind # "num" \/ IsNull(kind, c)
    THEN f.operator = "!="
    ELSE CASE f.operator = ">="    -> RatLeq(f.value, c)
           [] f.operator = "<="    -> RatLeq(c, f.value)
           [] f.operator = ">"     -> RatLess(f.value, c)
           [] f.operator = "<"     -> RatLess(c, f.value)
           [] f.operator = "="     -> c = f.value
           [] f.operator = "!="    -> c # f.value
           [] f.operator = "range" -> RatLeq(f.min, c) /\ RatLeq(c, f.max)
           [] OTHER                -> TRUE

RECURSIVE FilterLoopAny(_, _, _, _, _)
\* the variant of FilterLoop that keeps a row once the latest predicate holds
FilterLoopAny(df, cols, filters, k, mask) ==
    IF k > Len(filters) THEN [raised |-> FALSE, mask |-> mask]
    ELSE LET f == filters[k]
         IN  IF f.column \notin Range(cols)
             THEN FilterLoopAny(df, cols, filters, k + 1, mask)
             ELSE FilterLoopAny(df, cols, filters, k + 1,
                     [i \in 1..Len(df.rows) |->
                         Holds(df.kind[f.column], df.rows[i][f.column], f)])

RECURSIVE FilterLoop(_, _, _, _, _)
\* the for loop of apply_filters from filter k on: the mask, or the raise
FilterLoop(df, cols, filters, k, mask) ==
    IF k > Len(filters) THEN [raised |-> FALSE, mask |-> mask]
    ELSE LET f == filters[k]
         IN  IF f.column \notin Range(cols)
             THEN FilterLoop(df, cols, filters, k + 1, mask)
             ELSE IF Raises(df, f)
             THEN [raised |-> TRUE, mask |-> mask]
             ELSE FilterLoop(df, cols, filters, k + 1,
                     [i \in 1..Len(df.rows) |->
                         mask[i] /\ Holds(df.kind[f.column],
                                          df.rows[i][f.column], f)])

\* the variant of FilterSource that filters what processed_df holds
FilterSourceProcessed == Processed

\* the frame the filter starts from: self.original_df.copy()
FilterSource == Original

\* trace of a filter call: whether it repeats the call before it
Repeats(filters) ==
    IF last.op = "filter" /\ last.args = filters THEN <<"repeat">> ELSE <<>>

ApplyFilters(filters) ==
    IF original_df = None
    THEN /\ last' = Result("filter", FALSE, filters, <<>>, Repeats(filters))
         /\ UNCHANGED <<original_df, processed_df, heap, columns,
                        numeric_columns, date_column, stats>>
    ELSE LET copy   == FilterSource
             before == Len(copy.rows)
             loop   == FilterLoop(copy, columns, filters, 1,
                                  [i \in 1..before |-> TRUE])
             kept   == SelectRows(copy, loop.mask)
             after  == Len(kept.rows)
         IN  /\ processed_df' = NewRef
             /\ UNCHANGED <<original_df, columns, numeric_columns, date_column>>
             /\ IF loop.raised
                THEN \* TypeError after the copy was taken
                     /\ heap' = [heap EXCEPT ![NewRef] = copy]
                     /\ stats' = stats
                     /\ last' = Result("filter", FALSE, filters, <<>>,
                                       Repeats(filters))
                ELSE /\ heap' = [heap EXCEPT ![NewRef] = kept]
                     /\ stats' = StatsPut(StatsPut(stats,
                                    "filtered_rows", after),
                                    "filter_removed", before - after)
                     /\ last' =
                           IF before = 0
                           THEN \* after_count / before_count: ZeroDivisionError
                                Result("filter", FALSE, filters, <<>>,
                                       Repeats(filters))
                           ELSE Result("filter", TRUE, filters,
                                       <<before, after>>, Repeats(filters))

(***************************************************************************)
(* Column statistics.  The statistics skip NaN.  The outlier masks and the *)
(* normalised values do not change when every value of the column is       *)
(* multiplied by one positive factor, so they are computed exactly on the  *)
(* integers  c * L  (L the common denominator of the column), with square  *)
(* roots removed by squaring both sides of a comparison.                   *)
(***************************************************************************)
RECURSIVE DenLcm(_)
DenLcm(data) ==
    IF data = <<>> THEN 1
    ELSE IF Head(data)[2] = 0 THEN DenLcm(Tail(data))
    ELSE LCM(Head(data)[2], DenLcm(Tail(data)))

\* the column as integers (0 stands in for NaN; see NotNull)
Scaled(data) ==
    LET L == DenLcm(data)
    IN  [i \in 1..Len(data) |->
            IF data[i][2] = 0 THEN 0 ELSE data[i][1] * (L \div data[i][2])]

NotNull(data) == [i \in 1..Len(data) |-> data[i][2] # 0]

\* data.dropna()
DropNa(data) == SelectIdx(Scaled(data), NotNull(data), 1)

Squares(v) == [i \in 1..Len(v) |-> v[i] * v[i]]

\* n * (n - 1) * variance of v  =  n * sum(v^2) - sum(v)^2
VarTimesNN1(v) == Len(v) * SeqSum(Squares(v)) - SeqSum(v) * SeqSum(v)

\* the ddof of data.std()
Ddof == 1

\* twice the multiplier n of the standard deviation
sigma_map(method) ==
    CASE method = "2sigma" -> 4
      [] method = "3sigma" -> 6
      [] OTHER             -> 5     \* '2.5sigma' and the .get default

\* data.mean() and data.std() as the count, the sum and n*(n-1)*variance
MeanStd(v) == [n |-> Len(v), sum |-> SeqSum(v), var |-> VarTimesNN1(v)]

\* x < mean - n*std  (side = -1)  or  x > mean + n*std  (side = 1), where
\* mean = sum/N and std^2 = var / (N * (N - ddof)); k2 is 2 * n.
\* std is NaN, and the comparison False, when N - ddof <= 0.
OutsideSigma(x, ms, k2, side) ==
    LET N == ms.n
        d == N * x - ms.sum
    IN  /\ N - Ddof > 0
        /\ side * d > 0
        /\ 4 * (N - Ddof) * d * d > k2 * k2 * N * ms.var

\* 4 * data.quantile(q4 / 4), linear interpolation between order statistics
Quantile4(v, q4) ==
    LET s == SortSeq(v, LAMBDA a, b : a < b)
        h == (Len(v) - 1) * q4
        i == h \div 4
        r == h % 4
    IN  IF r = 0 THEN 4 * s[i + 1]
        ELSE 4 * s[i + 1] + r * (s[i + 2] - s[i + 1])

\* the multiplier of iqr in the bounds, times 2
IqrFactor2 == 3

\* 8 * lower and 8 * upper of the iqr branch
IqrBounds8(v) ==
    LET Q1  == Quantile4(v, 1)
        Q3  == Quantile4(v, 3)
        IQR == Q3 - Q1
    IN  [lower |-> 2 * Q1 - IqrFactor2 * IQR,
         upper |-> 2 * Q3 + IqrFactor2 * IQR]

\* what the bounds of a column are computed from
BoundsOf(v, method) ==
    IF method = "iqr"
    THEN (IF v = <<>> THEN [lower |-> 0, upper |-> 0] ELSE IqrBounds8(v))
    ELSE MeanStd(v)

\* the variant of Outside that also flags a value on a bound
OutsideOrOn(x, n, b, method) ==
    IF method = "iqr"
    THEN /\ n > 0
         /\ \/ 8 * x <= b.lower
            \/ 8 * x >= b.upper
    ELSE /\ n - Ddof > 0
         /\ 4 * (n - Ddof) * (n * x - b.sum) * (n * x - b.sum)
               >= sigma_map(method) * sigma_map(method) * n * b.var

\* (x < lower) | (x > upper) for one non-null scaled value x; a comparison
\* with a NaN bound is False
Outside(x, n, b, method) ==
    IF method = "iqr"
    THEN /\ n > 0
         /\ \/ 8 * x < b.lower
            \/ 8 * x > b.upper
    ELSE \/ OutsideSigma(x, b, sigma_map(method), -1)
         \/ OutsideSigma(x, b, sigma_map(method), 1)

\* outlier_mask = (data < lower) | (data > upper)
OutlierMask(data, method) ==
    LET v == DropNa(data)
        m == Scaled(data)
        n == Len(v)
        b == BoundsOf(v, method)
    IN  [i \in 1..Len(data) |-> data[i][2] # 0 /\ Outside(m[i], n, b, method)]

(***************************************************************************)
(* remove_outliers                                                         *)
(***************************************************************************)
\* the variant of SetCells that writes the whole row
SetRows(df, col, mask, value) ==
    [df EXCEPT !.rows = [i \in 1..Len(df.rows) |->
        IF mask[i] THEN [c \in DOMAIN df.rows[i] |-> value] ELSE df.rows[i]]]

\* self.processed_df.loc[outlier_mask, col] = np.nan
SetCells(df, col, mask, value) ==
    [df EXCEPT !.rows = [i \in 1..Len(df.rows) |->
        IF mask[i] THEN [df.rows[i] EXCEPT ![col] = value] ELSE df.rows[i]]]

Not(mask) == [i \in 1..Len(mask) |-> ~mask[i]]

Or(m1, m2) == [i \in 1..Len(m1) |-> m1[i] \/ m2[i]]

RECURSIVE AllMasks(_, _, _, _, _)
AllMasks(df, targets, k, method, acc) ==
    IF k > Len(targets) THEN acc
    ELSE IF targets[k] \notin Range(numeric_columns)
    THEN AllMasks(df, targets, k + 1, method, acc)
    ELSE LET data == Column(df, targets[k])
             mask == OutlierMask(data, method)
         IN  AllMasks(df, targets, k + 1, method,
                 [count |-> acc.count + Count(mask),
                  drop  |-> Or(acc.drop, mask),
                  trace |-> Append(acc.trace,
                      [col |-> targets[k], data |-> data, mask |-> mask])])

\* the variant of OutlierLoop that examines every target column on the frame
\* the call started with and removes the flagged rows at the end
OutlierLoopAtOnce(df, targets, k, method, action, acc) ==
    LET all == AllMasks(df, targets, k, method,
                   [count |-> 0, trace |-> <<>>,
                    drop  |-> [i \in 1..Len(df.rows) |-> FALSE]])
    IN  [df    |-> IF action = "drop" THEN SelectRows(df, Not(all.drop))
                   ELSE df,
         count |-> all.count, trace |-> all.trace]

RECURSIVE OutlierLoop(_, _, _, _, _, _)
\* the for loop of remove_outliers from target k on.  trace records, per
\* examined column, the data the bounds were computed on and the mask.
OutlierLoop(df, targets, k, method, action, acc) ==
    IF k > Len(targets) THEN [df |-> df, count |-> acc.count, trace |-> acc.trace]
    ELSE LET col == targets[k]
         IN  IF col \notin Range(numeric_columns)
             THEN OutlierLoop(df, targets, k + 1, method, action, acc)
             ELSE LET data == Column(df, col)
                      outlier_mask == OutlierMask(data, method)
                      next == [count |-> acc.count + Count(outlier_mask),
                               trace |-> Append(acc.trace,
                                   [col |-> col, data |-> data,
                                    mask |-> outlier_mask])]
                  IN  CASE action = "nan" ->
                             OutlierLoop(SetCells(df, col, outlier_mask, NaN),
                                         targets, k + 1, method, action, next)
                        [] action = "drop" ->
                             OutlierLoop(SelectRows(df, Not(outlier_mask)),
                                         targets, k + 1, method, action, next)
                        [] OTHER ->
                             OutlierLoop(df, targets, k + 1, method,
                                         action, next)

RemoveOutliers(method, cols, action) ==
    IF processed_df = None
    THEN /\ last' = Result("outlier", FALSE, <<method, cols, action>>, <<>>, <<>>)
         /\ UNCHANGED <<original_df, processed_df, heap, columns,
                        numeric_columns, date_column, stats>>
    ELSE LET target_columns == IF cols # <<>> THEN cols ELSE numeric_columns
             loop == OutlierLoop(Processed, target_columns, 1,
                                 method, action,
                                 [count |-> 0, trace |-> <<>>])
             ref  == IF action = "drop" THEN NewRef ELSE processed_df
         IN  /\ processed_df' = ref
             /\ heap' = [heap EXCEPT ![ref] = loop.df]
             /\ stats' = StatsPut(StatsPut(stats,
                            "outliers_removed", loop.count),
                            "rows_after_outlier", Len(loop.df.rows))
             /\ last' = Result("outlier", TRUE, <<method, cols, action>>,
                               <<loop.count>>, loop.trace)
             /\ UNCHANGED <<original_df, columns, numeric_columns, date_column>>

(***************************************************************************)
(* normalize_data                                                          *)
(***************************************************************************)
RECURSIVE SeqGcd(_)
SeqGcd(s) == IF s = <<>> THEN 0 ELSE GCD(Abs(Head(s)), SeqGcd(Tail(s)))

SeqMin(v) == CHOOSE x \in Range(v) : \A y \in Range(v) : x <= y
SeqMax(v) == CHOOSE x \in Range(v) : \A y \in Range(v) : x >= y

AllNaN(data) == [i \in 1..Len(data) |-> NaN]

\* std != 0, for std = data.std(): NaN (fewer than two values) is != 0
StdNotZero(v) == Len(v) - Ddof <= 0 \/ VarTimesNN1(v) # 0

\* (data - mean) / std as [data, unit]: the values are data[i] / sqrt(unit)
ZScore(data) ==
    LET v == DropNa(data)
        m == Scaled(data)
        N == Len(v)
        S == SeqSum(v)
        d == [i \in 1..Len(data) |-> N * m[i] - S]
        g == SeqGcd(SelectIdx(d, NotNull(data), 1))
    IN  IF N - Ddof <= 0
        THEN [data |-> AllNaN(data), unit |-> <<1, 1>>]
        ELSE [data |-> [i \in 1..Len(data) |->
                           IF data[i][2] = 0 THEN NaN ELSE Num(d[i] \div g)],
              unit |-> Rat(N * VarTimesNN1(v), (N - Ddof) * g * g)]

\* max_val != min_val: NaN != NaN holds for a column without values
MaxNotMin(v) == v = <<>> \/ SeqMax(v) # SeqMin(v)

\* (data - min_val) / (max_val - min_val)
MinMax(data) ==
    LET v == DropNa(data)
        m == Scaled(data)
        min_val == SeqMin(v)
        max_val == SeqMax(v)
    IN  IF v = <<>> THEN AllNaN(data)
        ELSE [i \in 1..Len(data) |->
                 IF data[i][2] = 0 THEN NaN
                 ELSE Rat(m[i] - min_val, max_val - min_val)]

RECURSIVE NormalizeLoop(_, _, _, _, _)
NormalizeLoop(df, targets, k, method, count) ==
    IF k > Len(targets) THEN [df |-> df, count |-> count]
    ELSE LET col  == targets[k]
             data == Column(df, col)
         IN  IF col \notin Range(numeric_columns)
             THEN NormalizeLoop(df, targets, k + 1, method, count)
             ELSE CASE method = "zscore" /\ StdNotZero(DropNa(data)) ->
                         LET z == ZScore(data)
                         IN  NormalizeLoop(
                                 SetColumn(df, col, "num", z.unit, z.data),
                                 targets, k + 1, method, count + 1)
                    [] method = "minmax" /\ MaxNotMin(DropNa(data)) ->
                         NormalizeLoop(
                             SetColumn(df, col, "num", <<1, 1>>, MinMax(data)),
                             targets, k + 1, method, count + 1)
                    [] OTHER ->
                         NormalizeLoop(df, targets, k + 1, method, count)

NormalizeData(method, cols) ==
    IF processed_df = None
    THEN /\ last' = Result("normalize", FALSE, <<method, cols>>, <<>>, <<>>)
         /\ UNCHANGED <<original_df, processed_df, heap, columns,
                        numeric_columns, date_column, stats>>
    ELSE LET target_columns == IF cols # <<>> THEN cols ELSE numeric_columns
             loop == NormalizeLoop(Processed, target_columns, 1, method, 0)
         IN  /\ heap' = [heap EXCEPT ![processed_df] = loop.df]
             /\ last' = Result("normalize", TRUE, <<method, cols>>,
                               <<loop.count>>, <<>>)
             /\ UNCHANGED <<original_df, processed_df, columns,
                            numeric_columns, date_column, stats>>

(***************************************************************************)
(* normalize_timestamps and realign_timestamps                             *)
(***************************************************************************)
MaxInterval == 2

\* an interval that does not divide the minutes of a day
LongInterval == 7

\* int(total_minutes / interval_minutes): the grid point at or before
RoundDownToGrid(sec, us, interval_minutes) == sec \div (60 * interval_minutes)

\* round(total_minutes / interval_minutes): half to even.  The time of day
\* is sec seconds and us microseconds; delta has the sign of the distance
\* from the midpoint between two grid points,
\* (2 * (sec % D) - D) * 1000000 + 2 * us: the whole seconds decide (their
\* term is even, and 2 * us is below 2000000), the microseconds on a tie.
RoundToGrid(sec, us, interval_minutes) ==
    LET D     == 60 * interval_minutes
        k     == sec \div D
        half  == 2 * (sec % D) - D
        delta == IF half # 0 THEN half ELSE us
    IN  IF delta > 0 THEN k + 1
        ELSE IF delta < 0 THEN k
        ELSE IF k % 2 = 0 THEN k ELSE k + 1

\* the minute of the hour the loop of normalize_timestamps snaps dt to
SnappedMin(dt, interval_minutes) ==
    ((RoundToGrid(dt[2], dt[3], interval_minutes) * interval_minutes)
        % (24 * 60)) % 60

\* new_dt of the loop of normalize_timestamps
Snap(dt, interval_minutes) ==
    LET snapped  == RoundToGrid(dt[2], dt[3], interval_minutes)
                        * interval_minutes
        days_add == snapped \div (24 * 60)
        wrapped  == snapped % (24 * 60)
        snapped_hour == wrapped \div 60
        snapped_min  == wrapped % 60
    IN  <<dt[1] + days_add, snapped_hour * 3600 + snapped_min * 60, 0>>

\* dt.minute != snapped_min or dt.second != 0 or dt.microsecond != 0
Corrected(dt, interval_minutes) ==
    \/ (dt[2] \div 60) % 60 # SnappedMin(dt, interval_minutes)
    \/ dt[2] % 60 # 0
    \/ dt[3] # 0

NormalizeTimestamps(interval_minutes) ==
    LET fail == /\ last' = Result("snap", FALSE, interval_minutes, <<>>, <<>>)
                /\ UNCHANGED <<original_df, processed_df, heap, columns,
                               numeric_columns, date_column, stats>>
    IN  IF processed_df = None \/ date_column = NoColumn THEN fail
        ELSE IF date_column \notin Range(Processed.cols) THEN fail  \* KeyError
        ELSE IF ~CanParse(Processed, date_column) THEN fail
        ELSE LET dates == Column(Processed, date_column)
             IN  IF \E i \in 1..Len(dates) : IsNull("time", dates[i])
                 THEN fail                       \* round(nan): ValueError
                 ELSE /\ heap' = [heap EXCEPT ![processed_df] =
                            SetColumn(Processed, date_column, "time", <<1, 1>>,
                                [i \in 1..Len(dates) |->
                                    Snap(dates[i], interval_minutes)])]
                      /\ last' = Result("snap", TRUE, interval_minutes,
                            <<Count([i \in 1..Len(dates) |->
                                  Corrected(dates[i], interval_minutes)]),
                              interval_minutes>>, <<>>)
                      /\ UNCHANGED <<original_df, processed_df, columns,
                                     numeric_columns, date_column, stats>>

\* the time of day moved on by minutes, on the day of start_dt
AddMinutesSameDay(start_dt, minutes) ==
    IF IsNull("time", start_dt) THEN NaT
    ELSE <<start_dt[1], (start_dt[2] + 60 * minutes) % 86400, start_dt[3]>>

\* start_dt + timedelta(minutes=minutes); NaT stays NaT
AddMinutes(start_dt, minutes) ==
    IF IsNull("time", start_dt) THEN NaT
    ELSE <<start_dt[1] + (start_dt[2] + 60 * minutes) \div 86400,
           (start_dt[2] + 60 * minutes) % 86400,
           start_dt[3]>>

\* start_time is a string: pd.to_datetime raises on one that spells no
\* timestamp and returns NaT for the empty one
RealignTimestamps(start_time, interval_minutes) ==
    LET fail == /\ last' = Result("realign", FALSE,
                                  <<start_time, interval_minutes>>, <<>>, <<>>)
                /\ UNCHANGED <<original_df, processed_df, heap, columns,
                               numeric_columns, date_column, stats>>
    IN  IF processed_df = None \/ date_column = NoColumn THEN fail
        ELSE IF start_time[3] = -2 THEN fail
        ELSE LET num_rows == Len(Processed.rows)
             IN  /\ heap' = [heap EXCEPT ![processed_df] =
                        SetColumn(Processed, date_column, "time", <<1, 1>>,
                            [i \in 1..num_rows |->
                                AddMinutes(start_time,
                                           interval_minutes * (i - 1))])]
                 /\ last' = Result("realign", TRUE,
                                   <<start_time, interval_minutes>>,
                                   <<interval_minutes, num_rows>>, <<>>)
                 /\ UNCHANGED <<original_df, processed_df, columns,
                                numeric_columns, date_column, stats>>

(***************************************************************************)
(* save_data, get_preview, get_column_stats and get_summary                *)
(***************************************************************************)
\* the variant of SaveCopy in which save_df is processed_df itself
SaveAlias(ref) == ref

\* save_df = self.processed_df.copy(): an object of the call, not one of
\* the frames the preprocessor holds
SaveCopy(ref) ==
    CHOOSE r \in 1..(Cardinality(DOMAIN heap) + 1) : r \notin DOMAIN heap

\* an assignment to the frame behind ref; an object of the call is gone
\* when the call returns
Store(h, ref, df) == IF ref \in DOMAIN h THEN [h EXCEPT ![ref] = df] ELSE h

\* pd.to_datetime(df[col]).dt.strftime('%Y-%m-%d %H:%M:%S'): text to the
\* second, an empty cell for NaT
Strftime(df, col) ==
    [df EXCEPT !.kind[col] = "text",
               !.rows = [i \in 1..Len(df.rows) |->
                            [df.rows[i] EXCEPT ![col] =
                                IF IsNull("time", @) THEN NaT
                                ELSE <<@[1], @[2], 0>>]]]

\* writable: whether the write of the output file succeeds
SaveData(writable) ==
    IF processed_df = None
    THEN /\ last' = Result("save", FALSE, writable, <<>>, <<>>)
         /\ UNCHANGED <<original_df, processed_df, heap, columns,
                        numeric_columns, date_column, stats>>
    ELSE LET save_df == SaveCopy(processed_df)
             text    == IF /\ date_column # NoColumn
                           /\ date_column \in Range(Processed.cols)
                           /\ CanParse(Processed, date_column)
                        THEN Strftime(Processed, date_column)
                        ELSE Processed
         IN  /\ heap' = Store(heap, save_df, text)
             /\ last' = Result("save", writable, writable, <<>>, <<>>)
             /\ UNCHANGED <<original_df, processed_df, columns,
                            numeric_columns, date_column, stats>>

\* of the statistics returned the model keeps the count
GetColumnStats(column) ==
    /\ last' = Result("column_stats", TRUE, column,
                      IF column \notin Range(numeric_columns) THEN <<>>
                      ELSE <<Len(DropNa(Column(Processed, column)))>>, <<>>)
    /\ UNCHANGED <<original_df, processed_df, heap, columns,
                   numeric_columns, date_column, stats>>

SummaryKeys ==
    <<"original_rows", "filtered_rows", "outliers_removed",
      "rows_after_outlier">>

\* the lines of the summary: a counter is printed when stats holds it
GetSummary ==
    /\ last' = Result("summary", TRUE, <<>>,
                      SelectIdx([k \in 1..Len(SummaryKeys) |->
                                    <<SummaryKeys[k],
                                      IF SummaryKeys[k] \in DOMAIN stats
                                      THEN stats[SummaryKeys[k]] ELSE 0>>],
                                [k \in 1..Len(SummaryKeys) |->
                                    SummaryKeys[k] \in DOMAIN stats], 1),
                      <<>>)
    /\ UNCHANGED <<original_df, processed_df, heap, columns,
                   numeric_columns, date_column, stats>>

GetPreview(rows) ==
    /\ last' = Result("preview", TRUE, rows,
                      <<IF processed_df = None THEN 0
                        ELSE IF Len(Processed.rows) < rows
                             THEN Len(Processed.rows) ELSE rows>>, <<>>)
    /\ UNCHANGED <<original_df, processed_df, heap, columns,
                   numeric_columns, date_column, stats>>

(***************************************************************************)
(* The calls of a session                                                  *)
(***************************************************************************)
\* The arguments a session of each scope calls the operations with: the
\* scope of a claim draws the arguments of the operation the claim is about
\* from a bounded set and gives every other operation one or two policies.
FilterLists(sc) ==
    CASE sc = "filter" ->
            SeqsUpTo({Pred("TEMP", "<", Num(9)),
                      RangePred("FAN", Num(2), PosInf),
                      Pred("NOPE", ">", Num(0))},
                     MaxFilters)
      [] sc = "files" ->
            {<<>>, <<Pred("TEMP", "!=", Num(0))>>,
             <<Pred("TEMP", ">", Num(0)), Pred("Runtime", ">", Num(0))>>}
      [] sc = "time" ->
            {<<>>, <<Pred("TEMP", ">", Num(0))>>}
      [] sc = "wide" ->
            {<<>>, <<Pred("S01", "=", Num(0))>>, <<Pred("S31", "=", Num(0))>>,
             <<Pred("S01", "=", Num(0)), Pred("S31", ">", Num(0))>>}
      [] OTHER -> {<<>>}

OutlierPolicies(sc) ==
    CASE sc = "outlier" ->
            {"iqr"} \X SeqsUpTo({"TEMP", "FAN"}, MaxTargets) \X {"nan", "drop"}
      [] sc = "sigma" ->
            {"2sigma", "2.5sigma", "3sigma", "iqr"} \X {<<>>}
                \X {"nan", "drop"}
      [] sc = "wide" ->
            {"iqr"} \X {<<"S31">>, <<"NOTE", "S30">>, <<"S31", "S29">>}
                \X {"nan", "drop"}
      [] OTHER ->
            {"iqr"} \X {<<>>} \X {"nan", "drop"}

NormalizePolicies(sc) ==
    CASE sc = "outlier" -> {"minmax"} \X {<<"FAN">>}
      [] sc = "sigma"   -> {"minmax"} \X {<<>>}
      [] sc = "filter"  -> {"zscore"} \X {<<>>}
      [] sc = "time"    -> {"minmax"} \X {<<>>}
      [] sc = "wide"    -> {"minmax"} \X {<<"S31">>, <<"S30", "S02">>}
      [] OTHER         -> {"zscore", "minmax"} \X {<<>>}

Intervals(sc) ==
    CASE sc = "files" -> 1..MaxInterval
      [] sc = "time"  -> 1..MaxInterval \cup {LongInterval}
      [] sc = "hours" -> {30, 60, 120}
      [] OTHER        -> {MaxInterval}

\* the text of the start-time entry, as pd.to_datetime reads it: a
\* timestamp, no timestamp (Str), or NaT for the empty entry
StartTimes(sc) ==
    CASE sc = "files" -> {TS(2, 23, 58, 0), Str(1)}
      [] sc = "time"  -> {TS(2, 23, 58, 0), <<0, 43200, 500000>>, Str(1), NaT}
      [] OTHER        -> {TS(2, 23, 58, 0)}

Writable(sc) == IF sc \in {"files", "readers"} THEN BOOLEAN ELSE {TRUE}

\* the columns whose statistics a session asks for
StatColumns(sc) == {"TEMP", "Date"}

Load ==
    /\ \E f \in Files(scope) : LoadData(f)
    /\ UNCHANGED outside

Filter ==
    /\ \E filters \in FilterLists(scope) : ApplyFilters(filters)
    /\ UNCHANGED outside

Outliers ==
    /\ \E p \in OutlierPolicies(scope) : RemoveOutliers(p[1], p[2], p[3])
    /\ UNCHANGED outside

Normalize ==
    /\ \E p \in NormalizePolicies(scope) : NormalizeData(p[1], p[2])
    /\ UNCHANGED outside

SnapTimes ==
    /\ \E interval \in Intervals(scope) : NormalizeTimestamps(interval)
    /\ UNCHANGED outside

Realign ==
    /\ \E start \in StartTimes(scope), interval \in Intervals(scope) :
          RealignTimestamps(start, interval)
    /\ UNCHANGED outside

Save ==
    /\ \E writable \in Writable(scope) : SaveData(writable)
    /\ UNCHANGED outside

Preview ==
    /\ GetPreview(10)
    /\ UNCHANGED outside

Next ==
    \/ Load
    \/ Filter
    \/ Outliers
    \/ Normalize
    \/ SnapTimes
    \/ Realign
    \/ Save
    \/ Preview

\* a session on one plant file, the filter called with every predicate list
Spec == Start("filter") /\ [][Next]_vars

\* a session on one plant file, the outlier stage called with every policy
SpecOutlier == Start("outlier") /\ [][Next]_vars

\* a session on single-column files, every outlier method
SpecSigma == Start("sigma") /\ [][Next]_vars

\* a session that opens several files, one after the other
SpecFiles == Start("files") /\ [][Next]_vars

SpecTime == Start("time") /\ [][Next]_vars

SpecWide == Start("wide") /\ [][Next]_vars

\* a session on hourly readings, with grids of half an hour and more
SpecHours == Start("hours") /\ [][Next]_vars

ColumnStats ==
    /\ \E column \in StatColumns(scope) : GetColumnStats(column)
    /\ UNCHANGED outside

Summary ==
    /\ GetSummary
    /\ UNCHANGED outside

\* a session that also reads the statistics and the summary
NextReaders ==
    \/ Next
    \/ ColumnStats
    \/ Summary

SpecReaders == Start("readers") /\ [][NextReaders]_vars

(***************************************************************************)
(* PresetManager: one JSON file per preset                                 *)
(***************************************************************************)
\* str.isalnum() on the characters names are spelled with here
Alnum == {"a", "b", "j", "n", "o", "p", "s"}

\* "".join(c for c in name if c.isalnum() or c in (' ', '-', '_'))
RECURSIVE KeepSafe(_)
KeepSafe(name) ==
    IF name = <<>> THEN <<>>
    ELSE (IF Head(name) \in Alnum \cup {" ", "-", "_"}
          THEN <<Head(name)>> ELSE <<>>) \o KeepSafe(Tail(name))

RECURSIVE LStrip(_)
LStrip(s) == IF s # <<>> /\ Head(s) = " " THEN LStrip(Tail(s)) ELSE s

RECURSIVE RStrip(_)
RStrip(s) ==
    IF s # <<>> /\ s[Len(s)] = " "
    THEN RStrip(SubSeq(s, 1, Len(s) - 1)) ELSE s

\* safe_name: the kept characters, .strip()
SafeName(name) == RStrip(LStrip(KeepSafe(name)))

\* self.preset_dir, here the directory /p
PresetDir == <<"/", "p">>

\* self.preset_dir / f"{safe_name}.json"
PresetPath(name) ==
    PresetDir \o <<"/">> \o SafeName(name) \o <<".", "j", "s", "o", "n">>

\* os.path.isfile, file_path.exists(): the files of this model are presets
IsFile(path) == path \in DOMAIN preset_dir

PresetKeys == <<"name", "description", "created_at", "version", "settings">>

\* json.dump of a preset: the members in the order of the dict
JsonDump(obj) ==
    [i \in 1..Len(PresetKeys) |-> <<PresetKeys[i], obj[PresetKeys[i]]>>]

\* json.load: the dict of the members of the text
JsonLoad(text) ==
    [k \in {text[i][1] : i \in DOMAIN text} |->
        text[CHOOSE i \in DOMAIN text : text[i][1] = k][2]]

NoPreset == <<>>

\* the file a call with name_or_path opens
PresetFile(name_or_path) ==
    IF IsFile(name_or_path) THEN name_or_path ELSE PresetPath(name_or_path)

\* the value load_preset(name_or_path) returns in this state
LoadedPreset(name_or_path) ==
    IF ~IsFile(PresetFile(name_or_path)) THEN NoPreset
    ELSE JsonLoad(preset_dir[PresetFile(name_or_path)])

Forget(f, key) == [k \in DOMAIN f \ {key} |-> f[k]]

SavePreset(name, settings, now, writable) ==
    LET preset_data ==
            [name |-> name, description |-> "", created_at |-> now,
             version |-> "1.2.0", settings |-> settings]
    IN  IF ~writable
        THEN /\ last' = Result("save_preset", FALSE, <<name>>, <<>>, <<>>)
             /\ UNCHANGED <<preset_dir, book>>
        ELSE /\ preset_dir' = StatsPut(preset_dir, PresetPath(name),
                                       JsonDump(preset_data))
             /\ book' = StatsPut(book, name, settings)
             /\ last' = Result("save_preset", TRUE, <<name>>, <<>>, <<>>)

LoadPreset(name_or_path) ==
    /\ last' = Result("load_preset", IsFile(PresetFile(name_or_path)),
                      <<name_or_path>>, LoadedPreset(name_or_path), <<>>)
    /\ UNCHANGED <<preset_dir, book>>

DeletePreset(name_or_path) ==
    /\ preset_dir' = Forget(preset_dir, PresetFile(name_or_path))
    /\ book' = Forget(book, name_or_path)
    /\ last' = Result("delete_preset", IsFile(PresetFile(name_or_path)),
                      <<name_or_path>>, <<>>, <<>>)

\* the names typed into the preset dialogs: two plain names, one with a
\* character that is not kept, one with a space around it, one that spells
\* the path of a preset file
PresetNames ==
    {<<"a">>, <<"b">>, <<"a", "/">>, <<" ", "b">>, PresetPath(<<"a">>)}

\* two results of create_settings_from_gui
PresetSettings ==
    {[filters |-> <<>>,
      outlier |-> [apply |-> TRUE, method |-> "2.5sigma", action |-> "drop"],
      normalize |-> [apply |-> FALSE, method |-> "zscore"],
      time |-> [normalize |-> FALSE, realign |-> FALSE,
                start_time |-> "", interval |-> "2"]],
     [filters |-> <<Pred("TEMP", ">=", Num(15))>>,
      outlier |-> [apply |-> FALSE, method |-> "iqr", action |-> "nan"],
      normalize |-> [apply |-> TRUE, method |-> "minmax"],
      time |-> [normalize |-> TRUE, realign |-> FALSE,
                start_time |-> "", interval |-> "5"]]}

\* datetime.now() of two calls
Clock == {"2024-01-01T09:00:00", "2024-01-01T09:00:01"}

core == <<original_df, processed_df, heap, columns, numeric_columns,
          date_column, stats>>

SavePresetCall ==
    /\ \E name \in PresetNames, settings \in PresetSettings,
          now \in Clock, writable \in BOOLEAN :
            SavePreset(name, settings, now, writable)
    /\ UNCHANGED <<core, scope, app, threads>>

LoadPresetCall ==
    /\ \E name \in PresetNames : LoadPreset(name)
    /\ UNCHANGED <<core, scope, app, threads>>

DeletePresetCall ==
    /\ \E name \in PresetNames : DeletePreset(name)
    /\ UNCHANGED <<core, scope, app, threads>>

NextPresets ==
    \/ SavePresetCall
    \/ LoadPresetCall
    \/ DeletePresetCall

SpecPresets == Start("presets") /\ [][NextPresets]_vars

(***************************************************************************)
(* The two windows, gui_app.py ("tk") and gui_app_mac.py ("mac"), and      *)
(* their pipeline workers.  A worker is at a stage (pc) and either about   *)
(* to decide on it or inside the preprocessor call (busy); the main thread *)
(* runs the handlers of the controls and the hand-offs queued for it.      *)
(***************************************************************************)
\* the threads that can be alive at once in this model: a session of scope
\* "race" follows two workers under the options of the launch, a session
\* of scope "ui" one worker under every policy
Workers == IF scope = "race" THEN {"t1", "t2"} ELSE {"t1"}

Stages == <<"filter", "outlier", "normalize", "snap", "realign">>

NextStage(stage) ==
    CASE stage = "filter"    -> "outlier"
      [] stage = "outlier"   -> "normalize"
      [] stage = "normalize" -> "snap"
      [] stage = "snap"      -> "realign"
      [] stage = "realign"   -> "end"

\* the option widgets after a preset was applied: no filter and every
\* other stage on; a predicate on the date column, which cannot be compared
\* with a number, and an interval entry that is no number
FullPolicy ==
    [filters |-> <<>>,
     outlier |-> [apply |-> TRUE, method |-> "iqr", action |-> "drop"],
     normalize |-> [apply |-> TRUE, method |-> "minmax"],
     time |-> [normalize |-> TRUE, realign |-> TRUE,
               start_time |-> TS(2, 23, 58, 0), interval |-> "2"]]

BrokenPolicy ==
    [filters |-> <<Pred("Date", ">", Num(0))>>,
     outlier |-> [apply |-> FALSE, method |-> "iqr", action |-> "nan"],
     normalize |-> [apply |-> FALSE, method |-> "zscore"],
     time |-> [normalize |-> TRUE, realign |-> FALSE,
               start_time |-> TS(2, 23, 58, 0), interval |-> "abc"]]

\* the presets a session applies
UiPolicies ==
    IF scope = "race" THEN {DefaultPolicy} ELSE {FullPolicy, BrokenPolicy}

\* int(self.interval_entry.get()): the entries of the policies above
IsInteger(text) == text \in {"1", "2"}
ParseInt(text) == IF text = "1" THEN 1 ELSE 2

\* the checkbox of a stage; the first stage always derives processed
Enabled(p, stage) ==
    CASE stage = "filter"    -> TRUE
      [] stage = "outlier"   -> p.outlier.apply
      [] stage = "normalize" -> p.normalize.apply
      [] stage = "snap"      -> p.time.normalize
      [] stage = "realign"   -> p.time.realign

\* the variant of Rederive in which a run without predicates goes on with
\* the table the run before left
KeepProcessed ==
    /\ last' = Result("copy", TRUE, <<>>, <<>>, <<>>)
    /\ UNCHANGED <<original_df, processed_df, heap, columns, numeric_columns,
                   date_column, stats>>

\* self.preprocessor.processed_df = self.preprocessor.original_df.copy()
Rederive ==
    /\ processed_df' = NewRef
    /\ heap' = [heap EXCEPT ![NewRef] = Original]
    /\ last' = Result("copy", TRUE, <<>>, <<>>, <<>>)
    /\ UNCHANGED <<original_df, columns, numeric_columns, date_column, stats>>

\* the preprocessor call of a stage, with the options p read before it
StageCall(stage, p) ==
    CASE stage = "filter" ->
            IF p.filters # <<>> THEN ApplyFilters(p.filters) ELSE Rederive
      [] stage = "outlier" ->
            RemoveOutliers(p.outlier.method, <<>>, p.outlier.action)
      [] stage = "normalize" ->
            NormalizeData(p.normalize.method, <<>>)
      [] stage = "snap" ->
            NormalizeTimestamps(ParseInt(p.time.interval))
      [] stage = "realign" ->
            RealignTimestamps(p.time.start_time, ParseInt(p.time.interval))

Tk == app.ui = "tk"

\* _set_processing_state, which only the worker calls
SetProcessingState(a, processing) ==
    [a EXCEPT !.is_processing = processing, !.process_btn = ~processing,
              !.cancel_btn = processing, !.direct = TRUE]

\* the emit of a signal: a hand-off to the main thread.  The queue holds
\* "finished" (_on_finished); the hand-offs of log lines and progress
\* (log_message, progress_updated, root.after) change widgets this model
\* does not hold, and are left out of it.
Post(a, item) == [a EXCEPT !.queue = @ \cup {item}]

\* a progress update: _update_progress writes the widgets in the calling
\* thread, progress_updated.emit queues it
Shown(a) == IF a.ui = "tk" THEN [a EXCEPT !.direct = TRUE] ELSE a

\* the cancel test at the boundary before a stage
Stopped(w) == IF Tk THEN ~app.is_processing ELSE threads[w].is_cancelled

\* a run during which a file was loaded, the options changed or another
\* worker started is not undisturbed
Disturbed(ths) == [w \in DOMAIN ths |-> [ths[w] EXCEPT !.solo = FALSE]]

FreeSlot == CHOOSE w \in Workers : w \notin DOMAIN threads

\* threading.Thread(...).start(), ProcessingThread(self).start()
Spawn(ths, auto_save) ==
    StatsPut(Disturbed(ths), FreeSlot,
             [pc |-> "start", busy |-> FALSE, is_cancelled |-> FALSE,
              auto_save |-> auto_save, call |-> DefaultPolicy,
              requested |-> FALSE, solo |-> DOMAIN ths = {}])

\* what a run that completed undisturbed leaves to compare the next with
Ended ==
    [policy |-> app.policy, original |-> Original, processed |-> Processed,
     before |-> IF /\ app.ended.original = Original
                   /\ app.ended.policy = app.policy
                THEN app.ended.processed ELSE NoFrame]

\* the first statements of the worker
Begin ==
    /\ \E w \in DOMAIN threads :
          /\ threads[w].pc = "start"
          /\ threads' = [threads EXCEPT ![w].pc = "filter"]
          /\ app' = IF Tk THEN SetProcessingState(app, TRUE) ELSE app
    /\ UNCHANGED <<core, last, scope, preset_dir, book>>

\* the boundary before a stage: the cancel test where the code has one,
\* the checkbox, the interval entry, then into the call
Enter ==
    /\ \E w \in DOMAIN threads :
          LET t == threads[w]
              p == app.policy
          IN  /\ t.pc \in Range(Stages)
              /\ ~t.busy
              /\ IF t.pc \in {"outlier", "normalize"} /\ Stopped(w)
                 THEN /\ threads' = [threads EXCEPT ![w].pc = "return"]
                      /\ app' = app
                 ELSE IF ~Enabled(p, t.pc)
                 THEN /\ threads' = [threads EXCEPT ![w].pc = NextStage(t.pc)]
                      /\ app' = Shown(app)
                 ELSE IF /\ t.pc \in {"snap", "realign"}
                         /\ ~IsInteger(p.time.interval)
                 THEN \* ValueError: caught at the stage (tk), ends the run (mac)
                      /\ threads' = [threads EXCEPT ![w].pc =
                                        IF Tk THEN NextStage(t.pc)
                                        ELSE "except"]
                      /\ app' = app
                 ELSE /\ threads' = [threads EXCEPT ![w].busy = TRUE,
                                                   ![w].call = p]
                      /\ app' = Shown(app)
    /\ UNCHANGED <<core, last, scope, preset_dir, book>>

\* the call of the stage returns
Leave ==
    /\ \E w \in DOMAIN threads :
          LET t == threads[w]
          IN  /\ t.busy
              /\ StageCall(t.pc, t.call)
              /\ LET failed == /\ Tk
                               /\ t.pc = "filter"
                               /\ t.call.filters # <<>>
                               /\ ~last'.ok
                 IN  /\ threads' =
                           [threads EXCEPT
                               ![w].busy = FALSE,
                               ![w].call = DefaultPolicy,
                               ![w].pc = IF failed THEN "return"
                                         ELSE NextStage(t.pc)]
                     /\ app' = IF failed THEN SetProcessingState(app, FALSE)
                               ELSE Shown(app)
    /\ UNCHANGED <<scope, preset_dir, book>>

\* the end of the run: after the last stage ("end"), on a return or in the
\* except clause
Finish ==
    /\ \E w \in DOMAIN threads :
          LET t     == threads[w]
              told  == IF Tk THEN SetProcessingState(app, FALSE)
                       ELSE IF t.pc = "return" THEN app
                       ELSE Post(app, "finished")
          IN  /\ t.pc \in {"end", "return", "except"}
              /\ app' = IF t.pc = "end" /\ t.solo /\ ~t.requested
                        THEN [told EXCEPT !.ended = Ended] ELSE told
              /\ threads' = IF Tk /\ t.auto_save
                            THEN [threads EXCEPT ![w].pc = "save"]
                            ELSE Forget(threads, w)
    /\ UNCHANGED <<core, last, scope, preset_dir, book>>

\* auto_process of the one-click dialog saves after the run
AutoSave ==
    /\ \E w \in DOMAIN threads :
          /\ threads[w].pc = "save"
          /\ SaveData(TRUE)
          /\ threads' = Forget(threads, w)
          /\ app' = app
    /\ UNCHANGED <<scope, preset_dir, book>>

\* python gui_app.py or python gui_app_mac.py
Launch ==
    /\ app.ui = "none"
    /\ \E ui \in {"tk", "mac"} : app' = [app EXCEPT !.ui = ui]
    /\ UNCHANGED <<core, last, scope, preset_dir, book, threads>>

LoadFile ==
    /\ app.ui # "none"
    /\ Tk => ~app.is_processing
    /\ \E f \in Files(scope) : LoadData(f)
    /\ threads' = Disturbed(threads)
    /\ UNCHANGED <<app, scope, preset_dir, book>>

SaveFile ==
    /\ app.ui # "none"
    /\ Tk => ~app.is_processing
    /\ processed_df # None
    /\ SaveData(TRUE)
    /\ UNCHANGED <<app, threads, scope, preset_dir, book>>

\* the run button
Run ==
    /\ app.ui # "none"
    /\ app.process_btn
    /\ original_df # None
    /\ Tk => ~app.is_processing
    /\ DOMAIN threads # Workers
    /\ threads' = Spawn(threads, FALSE)
    /\ app' = IF Tk THEN app
              ELSE [app EXCEPT !.process_btn = FALSE, !.cancel_btn = TRUE,
                               !.processing_thread = FreeSlot]
    /\ UNCHANGED <<core, last, scope, preset_dir, book>>

\* the cancel button
Cancel ==
    /\ app.ui # "none"
    /\ app.cancel_btn
    /\ app' = IF Tk THEN [app EXCEPT !.is_processing = FALSE] ELSE app
    /\ threads' =
          [w \in DOMAIN threads |->
              [threads[w] EXCEPT
                  !.requested = TRUE,
                  !.is_cancelled = @ \/ (~Tk /\ w = app.processing_thread)]]
    /\ UNCHANGED <<core, last, scope, preset_dir, book>>

\* a preset is applied to the option widgets; gui_app.py offers to run the
\* pipeline at once
LoadPresetAutoRun ==
    /\ app.ui # "none"
    /\ \E p \in UiPolicies, auto \in BOOLEAN :
          /\ auto => /\ Tk
                     /\ original_df # None
                     /\ ~app.is_processing
                     /\ DOMAIN threads # Workers
          /\ app' = [app EXCEPT !.policy = p]
          /\ threads' = IF auto THEN Spawn(threads, FALSE)
                        ELSE IF p # app.policy THEN Disturbed(threads)
                        ELSE threads
    /\ UNCHANGED <<core, last, scope, preset_dir, book>>

\* file and preset in one step, then the pipeline
OneClick ==
    /\ app.ui # "none"
    /\ DOMAIN threads # Workers
    /\ \E f \in Files(scope), p \in UiPolicies, auto_save \in BOOLEAN :
          /\ auto_save => Tk
          /\ LoadData(f)
          /\ IF (Tk /\ ~last'.ok) \/ original_df' = None
             THEN UNCHANGED <<app, threads>>
             ELSE /\ threads' = Spawn(threads, auto_save)
                  /\ app' = IF Tk THEN [app EXCEPT !.policy = p]
                            ELSE [app EXCEPT !.policy = p,
                                             !.process_btn = FALSE,
                                             !.cancel_btn = TRUE,
                                             !.processing_thread = FreeSlot]
    /\ UNCHANGED <<scope, preset_dir, book>>

\* the main thread runs one queued hand-off
Dispatch ==
    /\ \E item \in app.queue :
          app' = IF item = "finished"
                 THEN [app EXCEPT !.queue = @ \ {item},
                                  !.process_btn = TRUE, !.cancel_btn = FALSE]
                 ELSE [app EXCEPT !.queue = @ \ {item}]
    /\ UNCHANGED <<core, last, scope, preset_dir, book, threads>>

NextUi ==
    \/ Launch
    \/ LoadFile
    \/ SaveFile
    \/ Run
    \/ Cancel
    \/ LoadPresetAutoRun
    \/ OneClick
    \/ Dispatch
    \/ Begin
    \/ Enter
    \/ Leave
    \/ Finish
    \/ AutoSave

SpecUi == Start("ui") /\ [][NextUi]_vars

SpecRace == Start("race") /\ [][NextUi]_vars

(***************************************************************************)
(* Properties of apply_filters and of the two snapshots                    *)
(***************************************************************************)
RowCount == IF processed_df = None THEN 0 ELSE Len(Processed.rows)

\* the predicates of a call whose column the table has
KnownPredicates(filters) ==
    {k \in 1..Len(filters) : filters[k].column \in Range(Original.cols)}

\* per row of original: every known predicate of the call holds
Matching(filters) ==
    [i \in 1..Len(Original.rows) |->
        \A k \in KnownPredicates(filters) :
            Holds(Original.kind[filters[k].column],
                  Original.rows[i][filters[k].column], filters[k])]

\* C1: after a successful apply_filters(P), whatever processed held before,
\* processed is exactly the rows of original that satisfy every predicate of
\* P on a known column, in the order of original, with the columns of
\* original; with no predicate it equals original.
C1_FilterSelectsFromOriginal ==
    (last.op = "filter" /\ last.ok) =>
        /\ Processed.cols = Original.cols
        /\ Processed.rows = SelectIdx(Original.rows, Matching(last.args), 1)
        /\ (last.args = <<>> => Processed = Original)

\* a successful filter of two predicates, one on an unknown column, that
\* keeps some rows and not all, called after an outlier stage had run
C1_Witness ==
    /\ last.op = "filter" /\ last.ok
    /\ Len(last.args) = 2
    /\ \E k \in 1..2 : last.args[k].column \notin Range(Original.cols)
    /\ Len(Processed.rows) > 0
    /\ Len(Processed.rows) < Len(Original.rows)
    /\ "outliers_removed" \in DOMAIN stats

\* C2: apply_filters(P) called right after apply_filters(P) returns the same
\* success flag and message and leaves the same processed frame.
C2_FilterTwiceSame ==
    [][(last.op = "filter" /\ last'.op = "filter" /\ last'.args = last.args)
          => /\ last'.ok = last.ok
             /\ last'.msg = last.msg
             /\ IF processed_df = None THEN processed_df' = None
                ELSE /\ processed_df' # None
                     /\ heap'[processed_df'] = heap[processed_df]]_vars

\* the second of two equal calls in a row, successful, some rows removed
C2_Witness ==
    /\ last.op = "filter" /\ last.ok
    /\ last.trace = <<"repeat">>
    /\ last.args # <<>>
    /\ Len(Processed.rows) < Len(Original.rows)

\* C3: once a file is loaded, a call of any operation but load_data leaves
\* original the same object with the same cells and rows.
C3_OriginalImmutable ==
    [][(original_df # None /\ last'.op # "load")
          => /\ original_df' = original_df
             /\ heap'[original_df'] = heap[original_df]]_vars

\* cells were set to NaN in place in the frame load_data made (no filter
\* has replaced it), and original still has its values
C3_Witness ==
    /\ last.op = "outlier" /\ last.ok
    /\ last.args[3] = "nan"
    /\ last.msg[1] > 0
    /\ "filtered_rows" \notin DOMAIN stats
    /\ Len(Processed.rows) = Len(Original.rows)
    /\ Processed.rows # Original.rows

\* C4: apply_filters fails only when nothing is loaded, and a failed call
\* leaves processed as it was.
C4_FilterFailsOnlyUnloaded ==
    [][(last'.op = "filter" /\ ~last'.ok)
          => /\ original_df = None
             /\ UNCHANGED <<processed_df, heap>>]_vars

\* C5: the columns of processed are columns of original.
C5_ProcessedColumnsOfOriginal ==
    processed_df # None => Range(Processed.cols) \subseteq Range(Original.cols)

DateNamed(cols) == {i \in 1..Len(cols) : IsDateName(cols[i])}

\* C6: after a successful load the date column is the first column of the
\* loaded table whose name has a date keyword, and unset when there is none.
C6_DateColumnOfLoadedTable ==
    (last.op = "load" /\ last.ok) =>
        date_column =
            IF DateNamed(columns) = {} THEN NoColumn
            ELSE columns[CHOOSE i \in DateNamed(columns) :
                            \A j \in DateNamed(columns) : i <= j]

\* C7: the outlier stage never adds a row and with the nan action keeps
\* all; normalize, snap and realign keep the row count; a successful filter
\* counts the rows of original as its before-count and keeps no more.
C7_RowCountMonotone ==
    [][/\ last'.op \in {"normalize", "snap", "realign"}
            => RowCount' = RowCount
       /\ last'.op = "outlier"
            => /\ RowCount' <= RowCount
               /\ last'.args[3] = "nan" => RowCount' = RowCount
       /\ (last'.op = "filter" /\ last'.ok)
            => /\ last'.msg[1] = Len(heap[original_df].rows)
               /\ RowCount' <= last'.msg[1]]_vars

\* a filter that starts from more rows than the last drop had left
C7_Witness ==
    /\ last.op = "filter" /\ last.ok
    /\ "rows_after_outlier" \in DOMAIN stats
    /\ stats["rows_after_outlier"] < last.msg[1]
    /\ stats["rows_after_outlier"] < Len(Processed.rows)

(***************************************************************************)
(* Properties of remove_outliers, stated on the values themselves (exact   *)
(* fractions) and read off the record of the call: per examined column the *)
(* data the bounds were computed on and the mask of the flagged values     *)
(***************************************************************************)
QAdd(a, b) == Rat(a[1] * b[2] + b[1] * a[2], a[2] * b[2])
QSub(a, b) == Rat(a[1] * b[2] - b[1] * a[2], a[2] * b[2])
QMul(a, b) == Rat(a[1] * b[1], a[2] * b[2])

RECURSIVE QSum(_)
QSum(v) == IF v = <<>> THEN Num(0) ELSE QAdd(Head(v), QSum(Tail(v)))

\* the non-null values of a column
Values(data) == SelectIdx(data, NotNull(data), 1)

Mean(v) == QMul(QSum(v), <<1, Len(v)>>)

Sq(x) == QMul(x, x)

\* the square of the sample standard deviation (at least two values)
SampleVariance(v) ==
    LET m == Mean(v)
    IN  QMul(QSum([i \in 1..Len(v) |-> Sq(QSub(v[i], m))]),
             <<1, Len(v) - 1>>)

\* twice k
TwiceK(method) ==
    CASE method = "2sigma"   -> 4
      [] method = "2.5sigma" -> 5
      [] method = "3sigma"   -> 6

\* the k-th smallest value of v
Kth(v, k) ==
    CHOOSE x \in Range(v) :
        /\ Cardinality({i \in 1..Len(v) : RatLess(v[i], x)}) < k
        /\ Cardinality({i \in 1..Len(v) : RatLeq(v[i], x)}) >= k

\* the quartile q (1 or 3): position (n - 1) * q / 4 among the sorted
\* values, between two neighbours in proportion
Quartile(v, q) ==
    LET h == (Len(v) - 1) * q
        i == h \div 4
        r == h % 4
    IN  IF r = 0 THEN Kth(v, i + 1)
        ELSE QAdd(Kth(v, i + 1),
                  QMul(<<r, 4>>, QSub(Kth(v, i + 2), Kth(v, i + 1))))

\* what the bounds of the claim are made of, for the values v of a column
Fences(v, method) ==
    IF method = "iqr"
    THEN LET Q1 == Quartile(v, 1)
             Q3 == Quartile(v, 3)
         IN  [lower |-> QSub(Q1, QMul(<<3, 2>>, QSub(Q3, Q1))),
              upper |-> QAdd(Q3, QMul(<<3, 2>>, QSub(Q3, Q1)))]
    ELSE [n    |-> Len(v),
          mean |-> IF Len(v) >= 1 THEN Mean(v) ELSE NaN,
          k2sd |-> IF Len(v) >= 2
                   THEN QMul(Num(TwiceK(method) * TwiceK(method)),
                             SampleVariance(v))
                   ELSE NaN]

\* x < lower or x > upper; for a sigma method that is
\* (x - mean)^2 > k^2 * std^2, and no value is outside an undefined bound
StrictlyOutside(x, f, method) ==
    IF method = "iqr"
    THEN RatLess(x, f.lower) \/ RatLess(f.upper, x)
    ELSE /\ f.n >= 2
         /\ RatLess(f.k2sd, QMul(Num(4), Sq(QSub(x, f.mean))))

\* x = mean - k*std or x = mean + k*std
OnSigmaBound(x, f) ==
    /\ f.n >= 2
    /\ f.k2sd = QMul(Num(4), Sq(QSub(x, f.mean)))

\* in every column the call examined, a value is flagged if and only if it
\* is non-null and strictly outside the fences of the column's values
FlagsAreStrict ==
    (last.op = "outlier" /\ last.ok) =>
        \A k \in 1..Len(last.trace) :
            LET e == last.trace[k]
                f == Fences(Values(e.data), last.args[1])
            IN  \A i \in 1..Len(e.data) :
                   e.mask[i] <=>
                      /\ e.data[i] # NaN
                      /\ StrictlyOutside(e.data[i], f, last.args[1])

\* C8: in every column remove_outliers examines, a value is flagged if and
\* only if it is non-null and strictly below lower or strictly above upper,
\* the bounds being mean -+ k * sample std (k = 2, 2.5, 3) or the quartile
\* fences Q1 - 1.5*IQR and Q3 + 1.5*IQR of the non-null values of the
\* column; the first column examined is the column as processed held it.
C8_FlaggedIffStrictlyOutside ==
    /\ []FlagsAreStrict
    /\ [][(last'.op = "outlier" /\ last'.ok /\ last'.trace # <<>>)
             => last'.trace[1].data =
                   Column(Processed, last'.trace[1].col)]_vars

\* a 2-sigma call on a column with a value exactly on a bound of positive
\* width, which is not flagged
C8_Witness ==
    /\ last.op = "outlier" /\ last.ok
    /\ last.args[1] = "2sigma"
    /\ \E k \in 1..Len(last.trace) :
          LET e == last.trace[k]
              f == Fences(Values(e.data), "2sigma")
          IN  \E i \in 1..Len(e.data) :
                 /\ e.data[i] # NaN
                 /\ e.data[i] # f.mean
                 /\ OnSigmaBound(e.data[i], f)
                 /\ ~e.mask[i]

RECURSIVE Alive(_, _, _)
\* the rows, by their position in the frame the call started with, that
\* the masks of the columns before the k-th examined one have left
Alive(trace, k, n) ==
    IF k = 1 THEN [i \in 1..n |-> i]
    ELSE SelectIdx(Alive(trace, k - 1, n), Not(trace[k - 1].mask), 1)

\* C9: under drop, the k-th examined column is judged on the rows that
\* survived the columns examined before it in the same call, its mask comes
\* from those values alone, and processed ends as the rows that survived
\* every column.
C9_DropCompounds ==
    [][(last'.op = "outlier" /\ last'.ok /\ last'.args[3] = "drop")
          => LET trace == last'.trace
                 n     == Len(Processed.rows)
                 final == Alive(trace, Len(trace) + 1, n)
             IN  /\ \A k \in 1..Len(trace) :
                       LET a == Alive(trace, k, n)
                       IN  /\ trace[k].data =
                                [j \in 1..Len(a) |->
                                    Processed.rows[a[j]][trace[k].col]]
                           /\ trace[k].mask =
                                OutlierMask(trace[k].data, last'.args[1])
                 /\ heap'[processed_df'].rows =
                       [j \in 1..Len(final) |-> Processed.rows[final[j]]]]_vars

\* a drop over two columns: the first loses a row, and the second then
\* has a value flagged among the survivors
C9_Witness ==
    /\ last.op = "outlier" /\ last.ok
    /\ last.args[3] = "drop"
    /\ Len(last.trace) = 2
    /\ last.trace[1].col # last.trace[2].col
    /\ Count(last.trace[1].mask) > 0
    /\ Count(last.trace[2].mask) > 0

\* C10: the nan action keeps the frame object, its columns and its rows in
\* order; a cell is NaN afterwards when it was flagged in its column, and
\* is what it was otherwise.
C10_NanTouchesFlaggedCellsOnly ==
    [][(last'.op = "outlier" /\ last'.ok /\ last'.args[3] = "nan")
          => /\ processed_df' = processed_df
             /\ heap'[processed_df'].cols = Processed.cols
             /\ Len(heap'[processed_df'].rows) = Len(Processed.rows)
             /\ \A i \in 1..Len(Processed.rows) :
                   \A c \in Range(Processed.cols) :
                      heap'[processed_df'].rows[i][c] =
                         IF \E k \in 1..Len(last'.trace) :
                               /\ last'.trace[k].col = c
                               /\ last'.trace[k].mask[i]
                         THEN NaN
                         ELSE Processed.rows[i][c]]_vars

\* a nan call on one column that flagged a value in a row whose other
\* cell keeps its value
C10_Witness ==
    /\ last.op = "outlier" /\ last.ok
    /\ last.args[3] = "nan"
    /\ Len(last.trace) = 1
    /\ \E i \in 1..Len(Processed.rows) :
          /\ last.trace[1].mask[i]
          /\ Processed.rows[i][last.trace[1].col] = NaN
          /\ \E c \in Range(Processed.cols) : Processed.rows[i][c] # NaN

\* the stages other than the filter and the removal of rows
SamePolicyAgain ==
    /\ last.op \in {"outlier", "normalize", "snap", "realign"}
    /\ last.ok
    /\ last'.op = last.op
    /\ last'.ok
    /\ last'.args = last.args
    /\ (last.op = "outlier" => last.args[3] = "nan")

\* C11: remove_outliers with the nan action, normalize_data,
\* normalize_timestamps and realign_timestamps are idempotent: the second of
\* two successive calls with the same policy leaves processed as the first
\* call left it.
C11_StagesIdempotent ==
    [][SamePolicyAgain => heap'[processed_df'] = Processed]_vars

\* the columns a call with the target list cols works on
Targets(cols) ==
    LET named == IF cols # <<>> THEN cols ELSE numeric_columns
    IN  SelectIdx(named,
                  [k \in 1..Len(named) |->
                      named[k] \in Range(numeric_columns)], 1)

\* a column without usable statistics: no value at all, or, where a
\* standard deviation is needed, fewer than two values
Starved(df, col, needs_std) ==
    LET n == Count(NotNull(Column(df, col)))
    IN  n = 0 \/ (needs_std /\ n < 2)

\* C12: a target column without usable statistics is a no-op.
\* remove_outliers flags nothing in it and leaves it as it is;
\* normalize_data leaves it as it is and does not count it; both calls on a
\* loaded dataset succeed.
C12_StarvedColumnIsNoOp ==
    [][/\ (last'.op \in {"outlier", "normalize"} /\ processed_df # None)
             => last'.ok
       /\ (last'.op = "outlier" /\ last'.ok)
             => \A k \in 1..Len(last'.trace) :
                   LET col == last'.trace[k].col
                   IN  Count(NotNull(last'.trace[k].data)) = 0
                       \/ (last'.args[1] # "iqr"
                           /\ Count(NotNull(last'.trace[k].data)) < 2)
                          => /\ Count(last'.trace[k].mask) = 0
                             /\ last'.args[3] = "nan"
                                   => Column(heap'[processed_df'], col)
                                         = Column(Processed, col)
       /\ (last'.op = "normalize" /\ last'.ok)
             => LET t == Targets(last'.args[2])
                    z == last'.args[1] = "zscore"
                IN  /\ \A k \in 1..Len(t) :
                          Starved(Processed, t[k], z)
                             => Column(heap'[processed_df'], t[k])
                                   = Column(Processed, t[k])
                    /\ last'.msg[1] <=
                          Count([k \in 1..Len(t) |->
                                    ~Starved(Processed, t[k], z)])]_vars

QMin(v) == CHOOSE x \in Range(v) : \A y \in Range(v) : RatLeq(x, y)
QMax(v) == CHOOSE x \in Range(v) : \A y \in Range(v) : RatLeq(y, x)

\* the column has a maximum that is not its minimum (min-max), a standard
\* deviation that is not zero (z-score)
Spread(data, method) ==
    LET v == Values(data)
    IN  IF method = "zscore"
        THEN Len(v) >= 2 /\ SampleVariance(v) # Num(0)
        ELSE v # <<>> /\ QMin(v) # QMax(v)

\* the column has a maximum equal to its minimum, a standard deviation zero
Flat(data, method) ==
    LET v == Values(data)
    IN  IF method = "zscore"
        THEN Len(v) >= 2 /\ SampleVariance(v) = Num(0)
        ELSE v # <<>> /\ QMin(v) = QMax(v)

\* new is (old - min) / (max - min), value by value
IsMinMaxOf(new, old) ==
    LET v  == Values(old)
        lo == QMin(v)
        hi == QMax(v)
    IN  /\ \A i \in 1..Len(old) :
              new[i] = IF old[i] = NaN THEN NaN
                       ELSE LET a == QSub(old[i], lo)
                                b == QSub(hi, lo)
                            IN  Rat(a[1] * b[2], a[2] * b[1])
        /\ QMin(Values(new)) = Num(0)
        /\ QMax(Values(new)) = Num(1)

\* new / sqrt(unit) is (old - mean) / std, value by value
IsZScoreOf(new, unit, old) ==
    LET v == Values(old)
        m == Mean(v)
        s == SampleVariance(v)
    IN  \A i \in 1..Len(old) :
           IF old[i] = NaN THEN new[i] = NaN
           ELSE LET d == QSub(old[i], m)
                IN  /\ new[i] # NaN
                    /\ QMul(Sq(new[i]), s) = QMul(unit, Sq(d))
                    /\ (new[i][1] > 0) = (d[1] > 0)

\* C13: normalize_data rescales every target column on its own.  A min-max
\* target with max # min becomes (x - min) / (max - min), with minimum 0
\* and maximum 1; a z-score target with std # 0 becomes (x - mean) / std; a
\* target with max = min (std = 0) and every other column stay as they are;
\* the returned count is the number of targets with max # min (std # 0).
C13_NormalizePerColumn ==
    [][(last'.op = "normalize" /\ last'.ok)
          => LET method == last'.args[1]
                 t      == Targets(last'.args[2])
                 new    == heap'[processed_df']
             IN  /\ new.cols = Processed.cols
                 /\ \A c \in Range(Processed.cols) :
                       LET old == Column(Processed, c)
                       IN  IF c \in Range(t) /\ Spread(old, method)
                           THEN IF method = "zscore"
                                THEN IsZScoreOf(Column(new, c),
                                                new.unit[c], old)
                                ELSE IsMinMaxOf(Column(new, c), old)
                           ELSE c \notin Range(t) \/ Flat(old, method)
                                   => Column(new, c) = old
                 /\ last'.msg[1] =
                       Count([k \in 1..Len(t) |->
                                 Spread(Column(Processed, t[k]), method)])]_vars

MinutesPerDay == 1440

\* the whole minutes from midnight of the day of old to new
ElapsedMinutes(old, new) ==
    (new[1] - old[1]) * MinutesPerDay + new[2] \div 60

\* new is a point of the grid of interval minutes laid from midnight of
\* the day of old, on the minute, no further from old than half an interval
NearestGridPoint(old, new, interval) ==
    LET e    == ElapsedMinutes(old, new)
        \* new - old: whole seconds, and the microseconds of old to take off
        secs == e * 60 - old[2]
    IN  /\ new[3] = 0
        /\ new[2] % 60 = 0
        /\ new[2] \in 0..(MinutesPerDay * 60 - 1)
        /\ e >= 0
        /\ e % interval = 0
        /\ e >= MinutesPerDay <=> new[1] = old[1] + 1
        /\ e < MinutesPerDay <=> new[1] = old[1]
        /\ secs * 1000000 - old[3] <= 30000000 * interval
        /\ old[3] - secs * 1000000 <= 30000000 * interval

\* C14: a successful normalize_timestamps replaces the timestamp of every
\* row by the nearest point of the grid: seconds and microseconds zero, the
\* minutes since midnight of the original day a multiple of the interval,
\* at most half an interval away, carried into the next day from 1440 on.
C14_SnapToNearestGridPoint ==
    [][(last'.op = "snap" /\ last'.ok)
          => /\ Len(heap'[processed_df'].rows) = Len(Processed.rows)
             /\ \A i \in 1..Len(Processed.rows) :
                   NearestGridPoint(Processed.rows[i][date_column],
                                    heap'[processed_df'].rows[i][date_column],
                                    last'.args)]_vars

\* the clock of the original snapped to two minutes: 23:59:30 is midnight
\* of the next day, 00:01:00 is 00:00:00 and 00:05:59 is 00:06:00
C14_Witness ==
    /\ last.op = "snap" /\ last.ok
    /\ last.args = 2
    /\ Len(Processed.rows) = Len(Original.rows)
    /\ \E i, j, k \in 1..Len(Original.rows) :
          /\ Original.rows[i][date_column] = TS(0, 23, 59, 30)
          /\ Processed.rows[i][date_column] = TS(1, 0, 0, 0)
          /\ Original.rows[j][date_column] = TS(0, 0, 1, 0)
          /\ Processed.rows[j][date_column] = TS(0, 0, 0, 0)
          /\ Original.rows[k][date_column] = TS(0, 0, 5, 59)
          /\ Processed.rows[k][date_column] = TS(0, 0, 6, 0)

\* t is the timestamp minutes after t0
MinutesAfter(t0, t, minutes) ==
    /\ t[3] = t0[3]
    /\ t[2] \in 0..(MinutesPerDay * 60 - 1)
    /\ (t[1] - t0[1]) * MinutesPerDay * 60 + t[2] - t0[2] = 60 * minutes

\* C15: after a successful realign_timestamps(T0, I) on N rows, row i
\* (i = 0..N-1) holds T0 + i * I minutes whatever it held before; the
\* columns other than the date column and the number of rows are as before.
C15_RealignIsArithmetic ==
    [][(last'.op = "realign" /\ last'.ok /\ ~IsNull("time", last'.args[1]))
          => LET new == heap'[processed_df']
             IN  /\ Len(new.rows) = Len(Processed.rows)
                 /\ \A i \in 1..Len(new.rows) :
                       /\ MinutesAfter(last'.args[1],
                                       new.rows[i][date_column],
                                       (i - 1) * last'.args[2])
                       /\ \A c \in Range(Processed.cols) \ {date_column} :
                             new.rows[i][c] = Processed.rows[i][c]
                 /\ Range(new.cols) = Range(Processed.cols) \cup {date_column}
                 /\ \A c \in Range(Processed.cols) \ {date_column} :
                       /\ new.kind[c] = Processed.kind[c]
                       /\ new.unit[c] = Processed.unit[c]]_vars

\* a realignment from 23:58 every two minutes of the rows a filter kept:
\* the second row is midnight of the next day
C15_Witness ==
    /\ last.op = "realign" /\ last.ok
    /\ last.args = <<TS(2, 23, 58, 0), 2>>
    /\ Len(Processed.rows) \in 2..(Len(Original.rows) - 1)
    /\ Processed.rows[1][date_column] = TS(2, 23, 58, 0)
    /\ Processed.rows[2][date_column] = TS(3, 0, 0, 0)

\* the start string spells a timestamp: it is neither the empty string
\* nor any other text without one
SpellsTimestamp(start_time) == start_time[3] >= 0

\* C16: realign_timestamps with a start string that spells no timestamp,
\* the empty string included, fails and leaves every timestamp of processed
\* as it was.
C16_BadStartFails ==
    [][(last'.op = "realign" /\ ~SpellsTimestamp(last'.args[1])
        /\ processed_df # None)
          => /\ ~last'.ok
             /\ processed_df' = processed_df
             /\ heap'[processed_df'] = Processed]_vars

\* the call failed and left the frames and the detected columns alone
FailedUntouched ==
    /\ ~last'.ok
    /\ UNCHANGED <<original_df, processed_df, heap, columns,
                   numeric_columns, date_column>>

\* C17: precondition errors are results and change nothing.  Before the
\* first successful load every stage and save_data fail; on a loaded table
\* in which no date column was detected normalize_timestamps and
\* realign_timestamps fail; original, processed and the detected columns
\* stay as they are.
C17_PreconditionErrorsChangeNothing ==
    [][/\ (/\ original_df = None
           /\ last'.op \in {"filter", "outlier", "normalize", "snap",
                            "realign", "save"})
             => FailedUntouched
       /\ (/\ original_df # None
           /\ DateNamed(columns) = {}
           /\ last'.op \in {"snap", "realign"})
             => FailedUntouched]_vars

\* the columns of the table that are not in the numeric-column list
Undetected == Range(columns) \ Range(numeric_columns)

\* per row of original: every predicate of the call on a column of the
\* numeric-column list holds
MatchingDetected(filters) ==
    [i \in 1..Len(Original.rows) |->
        \A k \in 1..Len(filters) :
            filters[k].column \in Range(numeric_columns)
               => Holds(Original.kind[filters[k].column],
                        Original.rows[i][filters[k].column], filters[k])]

\* C18: a column of the table that is not in the numeric-column list is
\* invisible to the stages.  A filter keeps the rows that satisfy its
\* predicates on listed columns, whatever its other predicates say; an
\* outlier or a normalization call examines listed columns only, and one
\* that names unlisted columns alone leaves processed as it is.
C18_UndetectedColumnsInvisible ==
    [][/\ (last'.op = "filter" /\ last'.ok)
             => heap'[processed_df'].rows =
                   SelectIdx(Original.rows, MatchingDetected(last'.args), 1)
       /\ (last'.op = "outlier" /\ last'.ok)
             => /\ \A k \in 1..Len(last'.trace) :
                      last'.trace[k].col \notin Undetected
                /\ (last'.args[2] # <<>>
                    /\ Range(last'.args[2]) \subseteq Undetected)
                      => heap'[processed_df'] = Processed
       /\ (last'.op = "normalize" /\ last'.ok)
             => /\ \A c \in Undetected \cap Range(Processed.cols) :
                      Column(heap'[processed_df'], c) = Column(Processed, c)
                /\ (last'.args[2] # <<>>
                    /\ Range(last'.args[2]) \subseteq Undetected)
                      => /\ heap'[processed_df'] = Processed
                         /\ last'.msg[1] = 0]_vars

\* the positions, in source order, of the numeric-typed columns of the
\* table other than the date column
NumericPositions ==
    {i \in 1..Len(columns) :
        /\ Original.kind[columns[i]] = "num"
        /\ columns[i] # date_column}

\* C19: after every successful load the numeric-column list has at most 30
\* names, none of them the date column, none twice, and is the first
\* min(30, n) numeric-typed non-date columns of the table in source order.
C19_NumericColumnsAreFirstThirty ==
    original_df # None =>
        /\ Len(numeric_columns) <= 30
        /\ date_column \notin Range(numeric_columns)
        /\ \A i, j \in 1..Len(numeric_columns) :
              numeric_columns[i] = numeric_columns[j] => i = j
        /\ Len(numeric_columns) =
              IF Cardinality(NumericPositions) < 30
              THEN Cardinality(NumericPositions) ELSE 30
        /\ \A k \in 1..Len(numeric_columns) :
              \E i \in NumericPositions :
                 /\ columns[i] = numeric_columns[k]
                 /\ Cardinality({j \in NumericPositions : j < i}) = k - 1

\* a table with more than 30 numeric columns after the date column is
\* loaded: the list stops at the 30th and leaves the last two out
C19_Witness ==
    /\ last.op = "load" /\ last.ok
    /\ Cardinality(NumericPositions) = 32
    /\ Len(numeric_columns) = 30
    /\ date_column = "Date"
    /\ numeric_columns[1] = "ID"
    /\ numeric_columns[30] = "S29"
    /\ {"S30", "S31"} \subseteq Range(columns) \ Range(numeric_columns)

\* the counters load_data writes
LoadCounters == {"original_rows", "columns", "numeric_columns"}

\* C20: the statistics hold no leftover counter: right after a new file is
\* loaded they hold the counters of the load and nothing of the stages that
\* ran on the previous dataset.
C20_NoLeftoverCounters ==
    (last.op = "load" /\ last.ok) => DOMAIN stats \subseteq LoadCounters

(***************************************************************************)
(* Properties of the reading operations                                    *)
(***************************************************************************)
\* C21: save_data, get_preview, get_column_stats and get_summary change
\* nothing, whether they succeed or fail: original, processed with the
\* timestamps of its date column, the detected columns and the statistics
\* are after the call what they were before.
C21_ReadersChangeNothing ==
    [][last'.op \in {"save", "preview", "column_stats", "summary"}
          => UNCHANGED <<original_df, processed_df, heap, columns,
                         numeric_columns, date_column, stats>>]_vars

\* a save has written a table whose date column holds parsed timestamps
\* with microseconds, which the text of the file does not have
C21_Witness ==
    /\ last.op = "save" /\ last.ok
    /\ date_column \in Range(Processed.cols)
    /\ Processed.kind[date_column] = "time"
    /\ \E i \in 1..Len(Processed.rows) : Processed.rows[i][date_column][3] > 0

(***************************************************************************)
(* Properties of the preset store                                          *)
(***************************************************************************)
\* C22: a preset saved under a name is what load_preset returns for that
\* name, with the settings that were saved, whatever was saved or deleted
\* under other names since (book holds, per name, the settings of the last
\* successful save_preset not followed by a delete_preset of that name)
C22_PresetsRoundTrip ==
    \A name \in DOMAIN book :
        /\ IsFile(PresetFile(name))
        /\ LoadedPreset(name).settings = book[name]

(***************************************************************************)
(* Properties of the windows and their workers                             *)
(***************************************************************************)
LaterStages == {"outlier", "normalize", "snap", "realign"}

\* the worker w goes into the call of a stage in this step
Starts(w) ==
    /\ w \in DOMAIN threads /\ w \in DOMAIN threads'
    /\ ~threads[w].busy /\ threads'[w].busy

\* the call of the worker w returns in this step
Completes(w) ==
    /\ w \in DOMAIN threads /\ w \in DOMAIN threads'
    /\ threads[w].busy /\ ~threads'[w].busy

\* C23: once a cancel request was made during a run, the stage in progress
\* completes and is kept, and that run starts none of the later stages
\* (outlier, normalize, snap, realign)
C23_CancelStopsLaterStages ==
    [][\A w \in Workers :
          /\ (Starts(w) /\ threads[w].requested)
                => threads[w].pc \notin LaterStages
          /\ (w \in DOMAIN threads /\ threads[w].busy /\ threads[w].requested)
                => (Completes(w) \/ (w \in DOMAIN threads'
                                     /\ threads'[w].busy
                                     /\ threads'[w].pc = threads[w].pc))]_vars

Busy == \E w \in DOMAIN threads : threads[w].busy

\* C24: at most one pipeline worker executes at any time, and no load_data
\* or save_data call is made while a worker is inside a stage
C24_CallerSerializes ==
    /\ [](Cardinality(DOMAIN threads) <= 1)
    /\ [][(last' # last /\ last'.op \in {"load", "save"}) => ~Busy]_vars

\* C25: no widget is written by a worker thread itself
C25_WorkerHandsOff == ~app.direct

Position(pc) ==
    CASE pc = "start"     -> 0
      [] pc = "filter"    -> 1
      [] pc = "outlier"   -> 2
      [] pc = "normalize" -> 3
      [] pc = "snap"      -> 4
      [] pc = "realign"   -> 5
      [] OTHER            -> 6

\* after the step processed is a table of its own made of rows of
\* original, all of them when there is no predicate
Rederived(filters) ==
    /\ processed_df' # None
    /\ processed_df' # original_df'
    /\ heap'[processed_df'].cols = heap'[original_df'].cols
    /\ Range(heap'[processed_df'].rows) \subseteq Range(heap'[original_df'].rows)
    /\ filters = <<>> => heap'[processed_df'].rows = heap'[original_df'].rows

\* a worker moves forward through the stages, is inside one call at a time,
\* calls only stages that are switched on, and leaves the first stage with
\* processed derived anew from original
InOrder ==
    \A w \in DOMAIN threads \cap DOMAIN threads' :
        LET t == threads[w]
            u == threads'[w]
        IN  /\ Position(u.pc) >= Position(t.pc)
            /\ u.busy => u.pc = t.pc /\ u.pc \in Range(Stages)
            /\ Starts(w) => Enabled(app.policy, t.pc)
            /\ Completes(w) => Position(u.pc) > Position(t.pc)
            /\ (Completes(w) /\ t.pc = "filter")
                  => Rederived(t.call.filters)

\* C26: the stages of a run execute in the order filter, outlier,
\* normalize, snap, realign, each at most once and one after the other,
\* none before processed was derived anew from original; and a run that
\* completes undisturbed after another with the same policy on the same
\* file ends with the same processed
C26_RunsInOrderAndRepeat ==
    /\ [](app.ended.before # NoFrame => app.ended.processed = app.ended.before)
    /\ [][InOrder]_vars

\* the second of two undisturbed runs under the full policy has ended, and
\* the run changed the table
C26_Witness ==
    /\ app.ended.before # NoFrame
    /\ app.ended.policy = FullPolicy
    /\ app.ended.processed # app.ended.original
    /\ last.op = "realign" /\ last.ok

\* C27: when no worker is left and no hand-off is waiting, the window is
\* idle: run control enabled, cancel control disabled, flag cleared
C27_RunsEndIdle ==
    (app.ui # "none" /\ DOMAIN threads = {} /\ app.queue = {})
        => (app.process_btn /\ ~app.cancel_btn /\ ~app.is_processing)

(***************************************************************************)
(* Counts returned by the stages                                           *)
(***************************************************************************)
\* C28: under drop the count a remove_outliers call returns is the number
\* of rows the call removed from processed, whatever the target columns
C28_DropCountsRowsRemoved ==
    [][(last'.op = "outlier" /\ last'.ok /\ last'.args[3] = "drop")
          => last'.msg[1] =
                Len(Processed.rows) - Len(heap'[processed_df'].rows)]_vars

\* a drop over two columns that removed two rows or more, the second
\* column counted on the rows the first had left
C28_Witness ==
    /\ last.op = "outlier" /\ last.ok
    /\ last.args[3] = "drop"
    /\ Len(last.trace) = 2
    /\ last.msg[1] >= 2
    /\ Len(last.trace[2].data) < Len(last.trace[1].data)
    /\ Len(Processed.rows) < Len(last.trace[2].data)
    /\ stats["outliers_removed"] = last.msg[1]

\* the rows whose timestamp the step changed
ChangedRows ==
    {i \in 1..Len(Processed.rows) :
        heap'[processed_df'].rows[i][date_column] #
            Processed.rows[i][date_column]}

\* C29: the corrected count normalize_timestamps returns is the number of
\* rows whose timestamp the snap changed, for every positive interval
C29_CorrectedCountsChangedRows ==
    [][(last'.op = "snap" /\ last'.ok)
          => last'.msg[1] = Cardinality(ChangedRows)]_vars

\* C30: a row whose cell in a predicate's column is null fails the
\* predicate whatever its operator, so after a successful apply_filters no
\* row of processed has a null cell in the column of one of its predicates
C30_NullCellsFailPredicates ==
    [][(last'.op = "filter" /\ last'.ok)
          => \A k \in 1..Len(last'.args) :
                LET column == last'.args[k].column
                    df == heap'[processed_df']
                IN  column \in Range(columns)
                       => \A i \in 1..Len(df.rows) :
                             ~IsNull(df.kind[column], df.rows[i][column])]_vars

=============================================================================
